---------------------------- MODULE Spec2Model ----------------------------
(***************************************************************************)
(* Model of the MCP workshop servers (restaurant reservation, meeting      *)
(* summary, travel planner).  Every tool handler is a process whose steps  *)
(* are the stretches of code between two awaits; services are operators    *)
(* translated from their source; providers (Yelp, Workers AI, Jira,        *)
(* Aviationstack, Hotels.com, Google Calendar) answer nondeterministically.*)
(***************************************************************************)
EXTENDS Integers, Sequences, FiniteSets, TLC

VARIABLES
    mockReservations,   \* ReservationService.mockReservations
    handlers,           \* reservation-server tool handlers in flight, one per slot
    cancelConf,         \* history: per reservation, the confirmation its first completed cancel returned
    calls,              \* history: number of tool calls the reservation server has received
    call,               \* the invocation in progress of a stateless tool or service function
    net,                \* history: the outbound requests of that invocation, in order
    planLog             \* history: the travel plans created and booked so far

reservationVars == <<mockReservations, handlers, cancelConf, calls>>

toolVars == <<call, net, planLog>>

vars == <<mockReservations, handlers, cancelConf, calls, call, net, planLog>>

(***************************************************************************)
(* Bounds                                                                  *)
(***************************************************************************)
MaxReservations == 2

NumHandlers == 2

MaxCalls == 3

Slots == 1..NumHandlers

(***************************************************************************)
(* Restaurant reservation server: data                                     *)
(***************************************************************************)

\* String.prototype.toLowerCase on the strings of the model.
ToLowerCase(s) ==
    CASE s = "Ann@x.com" -> "ann@x.com"
      [] s = "Budgets" -> "budgets"
      [] s = "Indian" -> "indian"
      [] s = "Fusion" -> "fusion"
      [] OTHER -> s

\* Ids that `res_${Date.now()}_${Math.random()...}` can produce; nothing in
\* makeReservation prevents two calls from drawing the same one.
ReservationIds == {"res_1", "res_2"}

\* What the Yelp business endpoint holds per id.  name is whatever string the
\* provider sends (the code never validates it); "r2" is a business whose name
\* is the empty string.
YelpBusinessDetails(restaurantId) ==
    CASE restaurantId = "r1" -> [name |-> "Luigi", display_phone |-> "555-0101", rating |-> 4]
      [] restaurantId = "r2" -> [name |-> "", display_phone |-> "", rating |-> 3]
      [] OTHER -> [name |-> "?", display_phone |-> "", rating |-> 0]

\* The null of `Promise<Restaurant | null>`.
NullRestaurant == [isNull |-> TRUE, id |-> "", name |-> "", phone |-> "", rating |-> 0]

convertYelpToRestaurant(restaurantId, yelpBusiness) ==
    [isNull |-> FALSE, id |-> restaurantId, name |-> yelpBusiness.name,
     phone |-> yelpBusiness.display_phone, rating |-> yelpBusiness.rating]

\* RestaurantService.getRestaurantById: the restaurant when the Yelp request
\* succeeds, null on any thrown error (network error, non-OK status).
getRestaurantById(restaurantId, yelpOk) ==
    IF yelpOk
    THEN convertYelpToRestaurant(restaurantId, YelpBusinessDetails(restaurantId))
    ELSE NullRestaurant

\* The requests the tools are called with.
ReservationRequests ==
    { [restaurantId |-> "r1", date |-> "2024-08-15", time |-> "7:00 PM", partySize |-> 2,
       customerName |-> "Ann", customerEmail |-> "Ann@x.com", customerPhone |-> "555-1",
       specialRequests |-> "window"],
      [restaurantId |-> "r2", date |-> "2024-08-16", time |-> "8:00 PM", partySize |-> 4,
       customerName |-> "Bob", customerEmail |-> "bob@x.com", customerPhone |-> "555-2",
       specialRequests |-> ""] }

NoRequest ==
    [restaurantId |-> "", date |-> "", time |-> "", partySize |-> 0,
     customerName |-> "", customerEmail |-> "", customerPhone |-> "",
     specialRequests |-> ""]

CustomerEmails == {"ann@x.com", "bob@x.com"}

(***************************************************************************)
(* ReservationService                                                      *)
(***************************************************************************)

\* The match that looks at the id alone.
MatchesIdOnly(r, reservationId, customerEmail) == r.id = reservationId

Matches(r, reservationId, customerEmail) ==
    /\ r.id = reservationId
    /\ ToLowerCase(r.customerEmail) = ToLowerCase(customerEmail)

\* Array.prototype.findIndex, 1-based; 0 stands for -1 / null.
FindIndex(list, reservationId, customerEmail) ==
    IF \E i \in 1..Len(list) : Matches(list[i], reservationId, customerEmail)
    THEN CHOOSE i \in 1..Len(list) :
            /\ Matches(list[i], reservationId, customerEmail)
            /\ \A j \in 1..(i - 1) : ~Matches(list[j], reservationId, customerEmail)
    ELSE 0

\* makeReservation that stores the reservation as pending.
makeReservationPending(list, reservationId, request) ==
    Append(list,
           [id |-> reservationId,
            restaurantId |-> request.restaurantId,
            restaurantName |-> "",
            date |-> request.date,
            time |-> request.time,
            partySize |-> request.partySize,
            customerName |-> request.customerName,
            customerEmail |-> request.customerEmail,
            customerPhone |-> request.customerPhone,
            status |-> "pending",
            specialRequests |-> request.specialRequests])

\* makeReservation that books every table for two.
makeReservationForTwo(list, reservationId, request) ==
    Append(list,
           [id |-> reservationId,
            restaurantId |-> request.restaurantId,
            restaurantName |-> "",
            date |-> request.date,
            time |-> request.time,
            partySize |-> 2,
            customerName |-> request.customerName,
            customerEmail |-> request.customerEmail,
            customerPhone |-> request.customerPhone,
            status |-> "confirmed",
            specialRequests |-> request.specialRequests])

\* ReservationService.makeReservation: the list after the push.
makeReservation(list, reservationId, request) ==
    Append(list,
           [id |-> reservationId,
            restaurantId |-> request.restaurantId,
            restaurantName |-> "",
            date |-> request.date,
            time |-> request.time,
            partySize |-> request.partySize,
            customerName |-> request.customerName,
            customerEmail |-> request.customerEmail,
            customerPhone |-> request.customerPhone,
            status |-> "confirmed",
            specialRequests |-> request.specialRequests])

\* ReservationService.getReservationsByEmail: the matching entries (references
\* into the list, kept as indices), in list order.
RECURSIVE FilterByEmail(_, _, _)
FilterByEmail(list, customerEmail, i) ==
    IF i > Len(list) THEN <<>>
    ELSE IF ToLowerCase(list[i].customerEmail) = ToLowerCase(customerEmail)
         THEN <<i>> \o FilterByEmail(list, customerEmail, i + 1)
         ELSE FilterByEmail(list, customerEmail, i + 1)

\* getReservationsByEmail that stops at the first match.
getReservationsByEmailFirst(list, customerEmail) ==
    LET matching == FilterByEmail(list, customerEmail, 1)
    IN  IF matching = <<>> THEN <<>> ELSE <<Head(matching)>>

getReservationsByEmail(list, customerEmail) == FilterByEmail(list, customerEmail, 1)

\* ReservationService.getReservationByIdAndEmail: reference to the first match, 0 for null.
getReservationByIdAndEmail(list, reservationId, customerEmail) ==
    FindIndex(list, reservationId, customerEmail)

\* The status cancelReservation writes.
\* cancelReservation that finds the entry and forgets to write its status.
cancelReservationNoWrite(list, reservationId, customerEmail) == list

\* cancelReservation that flips the status: a cancelled entry is confirmed again.
cancelReservationToggle(list, reservationId, customerEmail) ==
    LET i == FindIndex(list, reservationId, customerEmail)
    IN  IF i = 0 THEN list
        ELSE [list EXCEPT ![i].status =
                 IF list[i].status = "cancelled" THEN "confirmed" ELSE "cancelled"]

\* ReservationService.cancelReservation: the list after the call.
cancelReservation(list, reservationId, customerEmail) ==
    LET reservationIndex == FindIndex(list, reservationId, customerEmail)
    IN  IF reservationIndex = 0 THEN list
        ELSE [list EXCEPT ![reservationIndex].status = "cancelled"]

\* cancelReservation that returns null for a reservation already cancelled.
cancelReservationResultOnce(list, reservationId, customerEmail) ==
    LET reservationIndex == FindIndex(list, reservationId, customerEmail)
    IN  IF reservationIndex # 0 /\ list[reservationIndex].status = "cancelled"
        THEN 0
        ELSE reservationIndex

\* What cancelReservation returns: reference to the reservation, 0 for null.
cancelReservationResult(list, reservationId, customerEmail) ==
    FindIndex(list, reservationId, customerEmail)

\* formatReservation that also reads how many reservations are stored.
formatReservationNumbered(reservation) ==
    [restaurantName |-> reservation.restaurantName, id |-> reservation.id,
     date |-> reservation.date, time |-> reservation.time,
     partySize |-> reservation.partySize, status |-> reservation.status,
     specialRequests |-> reservation.specialRequests, of |-> Len(mockReservations)]

\* The strings the formatters build, as the values they interpolate.
formatReservation(reservation) ==
    [restaurantName |-> reservation.restaurantName, id |-> reservation.id,
     date |-> reservation.date, time |-> reservation.time,
     partySize |-> reservation.partySize, status |-> reservation.status,
     specialRequests |-> reservation.specialRequests]

formatReservationConfirmation(reservation, restaurantPhone) ==
    [id |-> reservation.id, restaurantName |-> reservation.restaurantName,
     date |-> reservation.date, time |-> reservation.time,
     partySize |-> reservation.partySize, customerName |-> reservation.customerName,
     customerEmail |-> reservation.customerEmail,
     customerPhone |-> reservation.customerPhone,
     specialRequests |-> reservation.specialRequests,
     status |-> reservation.status, restaurantPhone |-> restaurantPhone]

formatCancellationConfirmation(reservation) ==
    [id |-> reservation.id, restaurantName |-> reservation.restaurantName,
     date |-> reservation.date, time |-> reservation.time]

(***************************************************************************)
(* Tool responses: the leading characters of the text, what the text is,   *)
(* and the values it interpolates.                                         *)
(***************************************************************************)
Response(prefix, kind, body) == [prefix |-> prefix, kind |-> kind, body |-> body]

NoResponse == Response("", "none", <<>>)

\* The first characters of a response text are written by code point: U+274C
\* is the cross mark, U+2705 the check mark, U+1F389 the party popper, U+1F4CB
\* the clipboard, U+1F50D the magnifying glass, U+1F37D the fork and knife.
CrossMark == "U+274C"

CheckMark == "U+2705"

IdleHandler ==
    [tool |-> "idle", pc |-> "idle", request |-> NoRequest, reservationId |-> "",
     restaurant |-> NullRestaurant, ref |-> 0, refs |-> <<>>, cursor |-> 0,
     second |-> FALSE, resp |-> NoResponse]

Idle(h) == handlers[h].tool = "idle"

\* A tool call arrives and is given the lowest free slot h.
Accept(h) ==
    /\ Idle(h)
    /\ \A j \in 1..(h - 1) : ~Idle(j)
    /\ calls < MaxCalls
    /\ calls' = calls + 1
    /\ UNCHANGED toolVars

Finish(h, resp) == [handlers[h] EXCEPT !.pc = "done", !.resp = resp]

(***************************************************************************)
(* make_reservation                                                        *)
(***************************************************************************)
StartMakeReservation(h) ==
    /\ Accept(h)
    /\ \E request \in ReservationRequests :
          handlers' = [handlers EXCEPT ![h] =
              [IdleHandler EXCEPT !.tool = "make_reservation", !.pc = "lookup",
                                  !.request = request]]
    /\ UNCHANGED <<mockReservations, cancelConf>>

\* make_reservation that calls makeReservation before it looks at what the
\* lookup returned.
MakeReservationLookupDonePushFirst(h) ==
    /\ handlers[h].tool = "make_reservation"
    /\ handlers[h].pc = "lookup"
    /\ Len(mockReservations) < MaxReservations
    /\ \E yelpOk \in BOOLEAN, reservationId \in ReservationIds :
         LET restaurant == getRestaurantById(handlers[h].request.restaurantId, yelpOk)
         IN  /\ mockReservations' =
                    makeReservation(mockReservations, reservationId, handlers[h].request)
             /\ cancelConf' = Append(cancelConf, NoResponse)
             /\ handlers' = [handlers EXCEPT ![h] =
                    IF restaurant.isNull
                    THEN Finish(h, Response(CrossMark, "restaurant_not_found", <<>>))
                    ELSE [handlers[h] EXCEPT !.pc = "made", !.restaurant = restaurant,
                                             !.ref = Len(mockReservations) + 1]]
    /\ UNCHANGED <<calls, toolVars>>

\* getRestaurantById has answered; on a restaurant, makeReservation runs up to
\* its return (the push included) and the handler waits on its promise.
MakeReservationLookupDone(h) ==
    /\ handlers[h].tool = "make_reservation"
    /\ handlers[h].pc = "lookup"
    /\ \E yelpOk \in BOOLEAN :
         LET restaurant == getRestaurantById(handlers[h].request.restaurantId, yelpOk)
         IN  IF restaurant.isNull
             THEN /\ handlers' = [handlers EXCEPT ![h] =
                        Finish(h, Response(CrossMark, "restaurant_not_found", <<>>))]
                  /\ UNCHANGED <<mockReservations, cancelConf>>
             ELSE /\ Len(mockReservations) < MaxReservations
                  /\ \E reservationId \in ReservationIds :
                        mockReservations' =
                            makeReservation(mockReservations, reservationId, handlers[h].request)
                  /\ cancelConf' = Append(cancelConf, NoResponse)
                  /\ handlers' = [handlers EXCEPT ![h] =
                        [handlers[h] EXCEPT !.pc = "made", !.restaurant = restaurant,
                                            !.ref = Len(mockReservations) + 1]]
    /\ UNCHANGED <<calls, toolVars>>

\* make_reservation that writes back the reservation as makeReservation
\* returned it, instead of setting the name on the stored object.
MakeReservationRespondWriteBack(h) ==
    /\ handlers[h].tool = "make_reservation"
    /\ handlers[h].pc = "made"
    /\ LET i == handlers[h].ref
           returned == makeReservation(<<>>, mockReservations[i].id, handlers[h].request)[1]
           named == [mockReservations EXCEPT
                        ![i] = [returned EXCEPT !.restaurantName = handlers[h].restaurant.name]]
       IN  /\ mockReservations' = named
           /\ handlers' = [handlers EXCEPT ![h] =
                 Finish(h, Response("U+1F389", "reservation_confirmed",
                     <<formatReservationConfirmation(named[i], handlers[h].restaurant.phone)>>))]
    /\ UNCHANGED cancelConf
    /\ UNCHANGED <<calls, toolVars>>

\* After `await makeReservation`: the handler fills in the name and answers.
MakeReservationRespond(h) ==
    /\ handlers[h].tool = "make_reservation"
    /\ handlers[h].pc = "made"
    /\ LET i == handlers[h].ref
           named == [mockReservations EXCEPT ![i].restaurantName = handlers[h].restaurant.name]
       IN  /\ mockReservations' = named
           /\ handlers' = [handlers EXCEPT ![h] =
                 Finish(h, Response("U+1F389", "reservation_confirmed",
                     <<formatReservationConfirmation(named[i], handlers[h].restaurant.phone)>>))]
    /\ UNCHANGED cancelConf
    /\ UNCHANGED <<calls, toolVars>>

(***************************************************************************)
(* cancel_reservation                                                      *)
(***************************************************************************)
\* The handler starts; getReservationByIdAndEmail has no await inside, so its
\* find runs at once and the handler waits on the resolved promise.
StartCancelReservation(h) ==
    /\ Accept(h)
    /\ \E reservationId \in ReservationIds, customerEmail \in CustomerEmails :
         LET existing == getReservationByIdAndEmail(mockReservations, reservationId, customerEmail)
         IN  handlers' = [handlers EXCEPT ![h] =
                [IdleHandler EXCEPT !.tool = "cancel_reservation", !.pc = "found",
                    !.reservationId = reservationId,
                    !.request = [NoRequest EXCEPT !.customerEmail = customerEmail],
                    !.ref = existing,
                    !.second = (existing # 0 /\ cancelConf[existing] # NoResponse)]]
    /\ UNCHANGED <<mockReservations, cancelConf>>

\* cancelReservation called by handler h (no await inside: it runs at once).
CallCancelReservation(h, list) ==
    /\ mockReservations' =
          cancelReservation(list, handlers[h].reservationId, handlers[h].request.customerEmail)
    /\ handlers' = [handlers EXCEPT ![h] =
          [handlers[h] EXCEPT !.pc = "cancelled",
              !.ref = cancelReservationResult(list, handlers[h].reservationId,
                                              handlers[h].request.customerEmail)]]

CancelReservationFound(h) ==
    /\ handlers[h].tool = "cancel_reservation"
    /\ handlers[h].pc = "found"
    /\ IF handlers[h].ref = 0
       THEN /\ handlers' = [handlers EXCEPT ![h] =
                  Finish(h, Response(CrossMark, "reservation_not_found", <<>>))]
            /\ UNCHANGED mockReservations
       ELSE IF mockReservations[handlers[h].ref].restaurantName = ""
            THEN /\ handlers' = [handlers EXCEPT ![h] = [handlers[h] EXCEPT !.pc = "lookup"]]
                 /\ UNCHANGED mockReservations
            ELSE CallCancelReservation(h, mockReservations)
    /\ UNCHANGED cancelConf
    /\ UNCHANGED <<calls, toolVars>>

\* The name lookup has answered: the name is written, then cancelReservation runs.
CancelReservationLookupDone(h) ==
    /\ handlers[h].tool = "cancel_reservation"
    /\ handlers[h].pc = "lookup"
    /\ \E yelpOk \in BOOLEAN :
         LET i == handlers[h].ref
             restaurant == getRestaurantById(mockReservations[i].restaurantId, yelpOk)
             named == [mockReservations EXCEPT ![i].restaurantName =
                          IF restaurant.isNull THEN "Unknown Restaurant" ELSE restaurant.name]
         IN  CallCancelReservation(h, named)
    /\ UNCHANGED cancelConf
    /\ UNCHANGED <<calls, toolVars>>

CancelReservationRespond(h) ==
    /\ handlers[h].tool = "cancel_reservation"
    /\ handlers[h].pc = "cancelled"
    /\ IF handlers[h].ref = 0
       THEN /\ handlers' = [handlers EXCEPT ![h] =
                  Finish(h, Response(CrossMark, "error_cancelling", <<>>))]
            /\ UNCHANGED cancelConf
       ELSE LET i == handlers[h].ref
                resp == Response(CheckMark, "reservation_cancelled",
                                 <<formatCancellationConfirmation(mockReservations[i])>>)
            IN  /\ handlers' = [handlers EXCEPT ![h] = Finish(h, resp)]
                /\ cancelConf' = IF cancelConf[i] = NoResponse
                                 THEN [cancelConf EXCEPT ![i] = resp]
                                 ELSE cancelConf
    /\ UNCHANGED mockReservations
    /\ UNCHANGED <<calls, toolVars>>

(***************************************************************************)
(* view_reservations                                                       *)
(***************************************************************************)
\* The loop over `reservations` from position k on, up to its next await or
\* its end: position of the first entry whose name is missing, or Len + 1.
RECURSIVE NextUnnamed(_, _, _)
NextUnnamed(list, refs, k) ==
    IF k > Len(refs) THEN k
    ELSE IF list[refs[k]].restaurantName = "" THEN k
         ELSE NextUnnamed(list, refs, k + 1)

ViewLoop(h, list, refs, k) ==
    LET stop == NextUnnamed(list, refs, k)
    IN  IF stop > Len(refs)
        THEN handlers' = [handlers EXCEPT ![h] =
                Finish(h, Response("U+1F4CB", "your_reservations",
                    [n \in 1..Len(refs) |-> formatReservation(list[refs[n]])]))]
        ELSE handlers' = [handlers EXCEPT ![h] =
                [handlers[h] EXCEPT !.pc = "lookup", !.cursor = stop]]

StartViewReservations(h) ==
    /\ Accept(h)
    /\ \E customerEmail \in CustomerEmails :
         handlers' = [handlers EXCEPT ![h] =
            [IdleHandler EXCEPT !.tool = "view_reservations", !.pc = "listed",
                !.request = [NoRequest EXCEPT !.customerEmail = customerEmail],
                !.refs = getReservationsByEmail(mockReservations, customerEmail)]]
    /\ UNCHANGED <<mockReservations, cancelConf>>

ViewReservationsListed(h) ==
    /\ handlers[h].tool = "view_reservations"
    /\ handlers[h].pc = "listed"
    /\ IF Len(handlers[h].refs) = 0
       THEN handlers' = [handlers EXCEPT ![h] =
               Finish(h, Response("U+1F4CB", "no_reservations", <<>>))]
       ELSE ViewLoop(h, mockReservations, handlers[h].refs, 1)
    /\ UNCHANGED <<mockReservations, cancelConf>>
    /\ UNCHANGED <<calls, toolVars>>

ViewReservationsLookupDone(h) ==
    /\ handlers[h].tool = "view_reservations"
    /\ handlers[h].pc = "lookup"
    /\ \E yelpOk \in BOOLEAN :
         LET i == handlers[h].refs[handlers[h].cursor]
             restaurant == getRestaurantById(mockReservations[i].restaurantId, yelpOk)
             named == [mockReservations EXCEPT ![i].restaurantName =
                          IF restaurant.isNull THEN "Unknown Restaurant" ELSE restaurant.name]
         IN  /\ mockReservations' = named
             /\ ViewLoop(h, named, handlers[h].refs, handlers[h].cursor + 1)
    /\ UNCHANGED <<cancelConf, calls, toolVars>>

(***************************************************************************)
(* check_availability                                                      *)
(***************************************************************************)
StartCheckAvailability(h) ==
    /\ Accept(h)
    /\ \E request \in ReservationRequests :
          handlers' = [handlers EXCEPT ![h] =
              [IdleHandler EXCEPT !.tool = "check_availability", !.pc = "lookup",
                                  !.request = request]]
    /\ UNCHANGED <<mockReservations, cancelConf>>

\* ReservationService.checkAvailability: Math.random() > 0.3 is either outcome.
checkAvailability(request, isAvailable) ==
    [isAvailable |-> isAvailable, time |-> request.time, partySize |-> request.partySize]

CheckAvailabilityLookupDone(h) ==
    /\ handlers[h].tool = "check_availability"
    /\ handlers[h].pc = "lookup"
    /\ \E yelpOk \in BOOLEAN, isAvailable \in BOOLEAN :
         LET restaurant == getRestaurantById(handlers[h].request.restaurantId, yelpOk)
             availability == checkAvailability(handlers[h].request, isAvailable)
         IN  handlers' = [handlers EXCEPT ![h] =
                IF restaurant.isNull
                THEN Finish(h, Response(CrossMark, "restaurant_not_found", <<>>))
                ELSE Finish(h, Response(IF availability.isAvailable THEN CheckMark ELSE CrossMark,
                                        "availability", <<availability>>))]
    /\ UNCHANGED <<mockReservations, cancelConf>>
    /\ UNCHANGED <<calls, toolVars>>

\* The runtime hands the response to the client; the slot is free again.
Return(h) ==
    /\ handlers[h].pc = "done"
    /\ handlers' = [handlers EXCEPT ![h] = IdleHandler]
    /\ UNCHANGED <<mockReservations, cancelConf>>
    /\ UNCHANGED <<calls, toolVars>>

(***************************************************************************)
(* The reservation server with handlers interleaving at their awaits.      *)
(***************************************************************************)
NoCall == [tool |-> "none", pc |-> "idle"]

ReservationInit ==
    /\ mockReservations = <<>>
    /\ handlers = [h \in Slots |-> IdleHandler]
    /\ cancelConf = <<>>
    /\ calls = 0

ToolInit ==
    /\ call = NoCall
    /\ net = <<>>
    /\ planLog = {}

Init == ReservationInit /\ ToolInit

Next ==
    \E h \in Slots :
        \/ StartMakeReservation(h)
        \/ MakeReservationLookupDone(h)
        \/ MakeReservationRespond(h)
        \/ StartCancelReservation(h)
        \/ CancelReservationFound(h)
        \/ CancelReservationLookupDone(h)
        \/ CancelReservationRespond(h)
        \/ StartViewReservations(h)
        \/ ViewReservationsListed(h)
        \/ ViewReservationsLookupDone(h)
        \/ StartCheckAvailability(h)
        \/ CheckAvailabilityLookupDone(h)
        \/ Return(h)

Spec == Init /\ [][Next]_vars

\* The same server when the runtime runs each handler to completion before
\* it accepts the next call.
NextSequential ==
    \E h \in Slots :
        \/ (\A j \in Slots : Idle(j)) /\ StartMakeReservation(h)
        \/ MakeReservationLookupDone(h)
        \/ MakeReservationRespond(h)
        \/ (\A j \in Slots : Idle(j)) /\ StartCancelReservation(h)
        \/ CancelReservationFound(h)
        \/ CancelReservationLookupDone(h)
        \/ CancelReservationRespond(h)
        \/ (\A j \in Slots : Idle(j)) /\ StartViewReservations(h)
        \/ ViewReservationsListed(h)
        \/ ViewReservationsLookupDone(h)
        \/ (\A j \in Slots : Idle(j)) /\ StartCheckAvailability(h)
        \/ CheckAvailabilityLookupDone(h)
        \/ Return(h)

SpecSequential == Init /\ [][NextSequential]_vars

(***************************************************************************)
(* Restaurant reservation server: search_restaurants and                   *)
(* get_restaurant_details (stateless, one invocation at a time)            *)
(***************************************************************************)
\* What a service call comes to: a value, or a thrown Error and its message.
Returned(value) == [threw |-> FALSE, value |-> value, message |-> ""]

Thrown(message) == [threw |-> TRUE, value |-> <<>>, message |-> message]

\* An outbound request and, once it is known, what came back.
Request(api, request, outcome) == [api |-> api, request |-> request, outcome |-> outcome]

\* The filters of search_restaurants; an absent (undefined) filter is ""
\* or 0, which the code's truthiness tests treat alike.
RestaurantSearchFilters ==
    [location : {"", "Downtown"}, cuisine : {"", "Indian", "Fusion"},
     priceLevel : {0, 2}, minRating : {0, 4, 5}]

\* The URLSearchParams searchRestaurants builds.
searchParams(filters) ==
    [categories |-> IF filters.cuisine = "" THEN "restaurants"
                    ELSE IF ToLowerCase(filters.cuisine) = "indian" THEN "indpak"
                    ELSE ToLowerCase(filters.cuisine),
     limit |-> "20", sort_by |-> "best_match",
     location |-> IF filters.location = "" THEN "San Francisco, CA" ELSE filters.location,
     price |-> [i \in 1..filters.priceLevel |-> i]]

\* How the Yelp search request can end: fetch rejects, the status is not OK,
\* the body has no businesses array, or it lists businesses.
YelpSearchOutcomes ==
    {[kind |-> k, businesses |-> <<>>] : k \in {"network_error", "not_ok", "malformed"}}
        \cup {[kind |-> "ok", businesses |-> b] :
                 b \in {<<>>, <<"r1">>, <<"r2">>, <<"r1", "r2">>}}

\* searchRestaurants failing over to canned restaurants instead of rethrowing.
searchRestaurantsMockOnFailure(filters, outcome) ==
    IF outcome.kind # "ok"
    THEN Returned(<<convertYelpToRestaurant("mock_1", [name |-> "Mock Bistro",
                        display_phone |-> "", rating |-> 5])>>)
    ELSE Returned([i \in 1..Len(outcome.businesses) |->
             convertYelpToRestaurant(outcome.businesses[i],
                                     YelpBusinessDetails(outcome.businesses[i]))])

\* searchRestaurants that returns what the provider listed as it came.
searchRestaurantsUnfiltered(filters, outcome) ==
    IF outcome.kind # "ok"
    THEN Thrown("Failed to search restaurants")
    ELSE Returned([i \in 1..Len(outcome.businesses) |->
             convertYelpToRestaurant(outcome.businesses[i],
                                     YelpBusinessDetails(outcome.businesses[i]))])

\* RestaurantService.searchRestaurants once makeYelpRequest has settled.
searchRestaurants(filters, outcome) ==
    IF outcome.kind # "ok"
    THEN Thrown("Failed to search restaurants")
    ELSE LET restaurants == [i \in 1..Len(outcome.businesses) |->
                 convertYelpToRestaurant(outcome.businesses[i],
                                         YelpBusinessDetails(outcome.businesses[i]))]
         IN  Returned(IF filters.minRating # 0
                      THEN SelectSeq(restaurants, LAMBDA r : r.rating >= filters.minRating)
                      ELSE restaurants)

formatRestaurant(restaurant) ==
    [id |-> restaurant.id, name |-> restaurant.name, rating |-> restaurant.rating]

\* A tool call arrives while none is running.
Invoke(frame, requests) ==
    /\ call.pc = "idle"
    /\ call' = frame
    /\ net' = requests

Respond(resp) == call' = [call EXCEPT !.pc = "done", !.resp = resp]

\* The last request of the invocation has settled with `outcome`.
Settle(outcome) == net' = [net EXCEPT ![Len(net)].outcome = outcome]

StartSearchRestaurants ==
    /\ \E filters \in RestaurantSearchFilters :
          Invoke([tool |-> "search_restaurants", pc |-> "yelp", filters |-> filters,
                  resp |-> NoResponse],
                 <<Request("yelp", <<"/businesses/search", searchParams(filters)>>, "pending")>>)
    /\ UNCHANGED <<planLog, reservationVars>>

SearchRestaurantsDone ==
    /\ call.tool = "search_restaurants"
    /\ call.pc = "yelp"
    /\ \E outcome \in YelpSearchOutcomes :
         LET restaurants == searchRestaurants(call.filters, outcome)
         IN  /\ Settle(outcome)
             /\ Respond(IF restaurants.threw
                        THEN Response(CrossMark, "Error searching restaurants",
                                      <<restaurants.message>>)
                        ELSE IF Len(restaurants.value) = 0
                        THEN Response("U+1F50D", "No restaurants found", <<>>)
                        ELSE Response("Found", "restaurants",
                                 [i \in 1..Len(restaurants.value) |->
                                     formatRestaurant(restaurants.value[i])]))
    /\ UNCHANGED <<planLog, reservationVars>>

StartGetRestaurantDetails ==
    /\ \E restaurantId \in {"r1", "r2"} :
          Invoke([tool |-> "get_restaurant_details", pc |-> "yelp",
                  restaurantId |-> restaurantId, resp |-> NoResponse],
                 <<Request("yelp", <<"/businesses", restaurantId>>, "pending")>>)
    /\ UNCHANGED <<planLog, reservationVars>>

GetRestaurantDetailsDone ==
    /\ call.tool = "get_restaurant_details"
    /\ call.pc = "yelp"
    /\ \E yelpOk \in BOOLEAN :
         LET restaurant == getRestaurantById(call.restaurantId, yelpOk)
         IN  /\ Settle(IF yelpOk THEN "ok" ELSE "failed")
             /\ Respond(IF restaurant.isNull
                        THEN Response(CrossMark, "Restaurant not found", <<>>)
                        ELSE Response("U+1F37D", "restaurant",
                                      <<formatRestaurant(restaurant)>>))
    /\ UNCHANGED <<planLog, reservationVars>>

\* The response goes to the client.
ToolReturn ==
    /\ call.pc = "done"
    /\ call' = NoCall
    /\ UNCHANGED <<net, planLog, reservationVars>>

RestaurantNext ==
    \/ StartSearchRestaurants
    \/ SearchRestaurantsDone
    \/ StartGetRestaurantDetails
    \/ GetRestaurantDetailsDone
    \/ ToolReturn

SpecRestaurant == Init /\ [][RestaurantNext]_vars

\* registerAllTools puts the restaurant tools and the reservation tools on one
\* server. Here the runtime runs each tool call to completion before it
\* accepts the next.
ServerNext ==
    \/ call.pc = "idle" /\ NextSequential
    \/ (\A j \in Slots : Idle(j)) /\ RestaurantNext

SpecServer == Init /\ [][ServerNext]_vars

(***************************************************************************)
(* Meeting summary server: text                                            *)
(***************************************************************************)
MaxSentences == 6

MaxDocSentences == 2

MaxBudget == 10

\* String.length of the words the model's documents are written in.
length(word) ==
    CASE word = "the" -> 3
      [] word \in {"budget", "review", "launch", "design", "policy", "vendor", "hiring"} -> 6
      [] word \in {"budgets", "Budgets", "roadmap"} -> 7

\* The sentences documents are made of, each the list of its words.
SentencePool ==
    { <<"budget", "budget", "budget">>,
      <<"the", "Budgets", "budget", "review">>,
      <<"roadmap", "launch", "design", "policy", "vendor", "hiring">> }

\* A content string: its sentences, each closed by a full stop, separated by
\* `gap` (a space or a blank line) and followed by `pad` white-space
\* characters.
Content(sentences, gap, pad) == [sentences |-> sentences, gap |-> gap, pad |-> pad]

SentenceLists(n) == UNION {[1..k -> SentencePool] : k \in 0..n}

\* Contents as the summarizer receives them: single spaces, trimmed.
CleanContents(n) == {Content(sentences, " ", 0) : sentences \in SentenceLists(n)}

RECURSIVE SumLengths(_)
SumLengths(words) ==
    IF words = <<>> THEN 0 ELSE length(Head(words)) + SumLengths(Tail(words))

\* String.length of a trimmed sentence: its words and the spaces between them.
sentenceLength(words) ==
    IF words = <<>> THEN 0 ELSE SumLengths(words) + Len(words) - 1

RECURSIVE SumSentenceLengths(_)
SumSentenceLengths(sentences) ==
    IF sentences = <<>> THEN 0
    ELSE sentenceLength(Head(sentences)) + 1 + SumSentenceLengths(Tail(sentences))

\* content.length
contentLength(content) ==
    LET n == Len(content.sentences)
    IN  SumSentenceLengths(content.sentences)
          + (IF n > 1 THEN (n - 1) * Len(content.gap) ELSE 0)
          + content.pad

RECURSIVE Flatten(_)
Flatten(sentences) ==
    IF sentences = <<>> THEN <<>> ELSE Head(sentences) \o Flatten(Tail(sentences))

\* A string of parts joined by single spaces (or, for the replies of the AI
\* model, by commas or line breaks), followed by `ws` white-space characters.
Text(parts, sep, ws) == [parts |-> parts, sep |-> sep, ws |-> ws]

EmptyText == Text(<<>>, " ", 0)

\* String.prototype.trim
trim(text) == [text EXCEPT !.ws = 0]

\* Truthiness of a string: it is not ''.
NonEmpty(text) == text.parts # <<>> \/ text.ws > 0

\* The white-space separated words of a text.
Words(text) == IF text.sep = " " THEN Len(text.parts) ELSE IF text.parts = <<>> THEN 0 ELSE 1

\* text.split(/\s+/).length: '' yields one (empty) piece, and trailing
\* white space one more.
splitLength(text) ==
    IF text.parts = <<>> THEN (IF text.ws = 0 THEN 1 ELSE 2)
    ELSE Words(text) + (IF text.ws > 0 THEN 1 ELSE 0)

(***************************************************************************)
(* DocumentSummarizer.extractiveSummary                                    *)
(***************************************************************************)
MinSentenceLength == 20

MinKeywordLength == 4

KeywordLimit == 8

\* content.split(/[.!?]+/).map(s => s.trim()): the sentences and the piece
\* after the last full stop, which trims to ''.
splitSentences(content) == content.sentences \o << <<>> >>

RECURSIVE countWord(_, _)
countWord(words, word) ==
    IF words = <<>> THEN 0
    ELSE (IF Head(words) = word THEN 1 ELSE 0) + countWord(Tail(words), word)

\* The keys of the frequency table, in insertion order.
RECURSIVE frequencyKeys(_, _)
frequencyKeys(words, seen) ==
    IF words = <<>> THEN <<>>
    ELSE IF Head(words) \in seen THEN frequencyKeys(Tail(words), seen)
    ELSE <<Head(words)>> \o frequencyKeys(Tail(words), seen \cup {Head(words)})

\* Array.prototype.sort((a, b) => b.score - a.score): stable, descending.
RECURSIVE insertByScore(_, _)
insertByScore(sorted, x) ==
    IF sorted = <<>> THEN <<x>>
    ELSE IF Head(sorted).score >= x.score
         THEN <<Head(sorted)>> \o insertByScore(Tail(sorted), x)
         ELSE <<x>> \o sorted

RECURSIVE sortByScore(_)
sortByScore(items) ==
    IF items = <<>> THEN <<>>
    ELSE insertByScore(sortByScore(SubSeq(items, 1, Len(items) - 1)), items[Len(items)])

slice(seq, n) == SubSeq(seq, 1, IF Len(seq) < n THEN Len(seq) ELSE n)

extractKeywords(content) ==
    LET lower == [i \in 1..Len(Flatten(content.sentences)) |->
                     ToLowerCase(Flatten(content.sentences)[i])]
        words == SelectSeq(lower, LAMBDA word : length(word) > MinKeywordLength)
        keys == frequencyKeys(words, {})
        entries == [i \in 1..Len(keys) |-> [item |-> keys[i], score |-> countWord(words, keys[i])]]
        top == slice(sortByScore(entries), KeywordLimit)
    IN  [i \in 1..Len(top) |-> top[i].item]

\* String.prototype.includes for a keyword (one lower-case word) in a word.
wordIncludes(word, keyword) ==
    \/ word = keyword
    \/ word = "budgets" /\ keyword = "budget"

\* sentence.toLowerCase().includes(keyword.toLowerCase())
includes(sentence, keyword) ==
    \E i \in 1..Len(sentence) : wordIncludes(ToLowerCase(sentence[i]), ToLowerCase(keyword))

\* Twice the score of the sentence at (0-based) index among n: 2 per keyword
\* it includes, 1 for the boost of 0.5.
score2(sentence, index, n, keywords) ==
    2 * Cardinality({k \in 1..Len(keywords) : includes(sentence, keywords[k])})
      + (IF index < 3 \/ index > n - 3 THEN 1 ELSE 0)

scoredSentences(content) ==
    LET sentences == SelectSeq(splitSentences(content),
                               LAMBDA s : sentenceLength(s) > MinSentenceLength)
        keywords == extractKeywords(content)
    IN  [i \in 1..Len(sentences) |->
            [item |-> sentences[i],
             score |-> score2(sentences[i], i - 1, Len(sentences), keywords)]]

\* The selection loop that stops at the first sentence that does not fit.
RECURSIVE selectUntilFull(_, _, _, _, _)
selectUntilFull(sorted, k, selected, wordCount, maxLength) ==
    IF k > Len(sorted) THEN selected
    ELSE LET words == Len(sorted[k].item)
         IN  IF wordCount + words <= maxLength
             THEN selectUntilFull(sorted, k + 1, Append(selected, sorted[k].item),
                                  wordCount + words, maxLength)
             ELSE selected

\* The selection loop: sorted[k..], what is selected so far and its words.
RECURSIVE select(_, _, _, _, _)
select(sorted, k, selected, wordCount, maxLength) ==
    IF k > Len(sorted) THEN selected
    ELSE LET words == Len(sorted[k].item)
         IN  IF wordCount + words <= maxLength
             THEN select(sorted, k + 1, Append(selected, sorted[k].item),
                         wordCount + words, maxLength)
             ELSE select(sorted, k + 1, selected, wordCount, maxLength)

\* The selection loop testing the budget before it adds the sentence's words.
selectedSentencesOvershoot(content, maxLength) ==
    LET sorted == sortByScore(scoredSentences(content))
        over == IF sorted = <<>> THEN 0 ELSE Len(sorted[1].item)
    IN  select(sorted, 1, <<>>, 0, maxLength + over)

selectedSentences(content, maxLength) ==
    select(sortByScore(scoredSentences(content)), 1, <<>>, 0, maxLength)

\* selected.join('. ') + '.', as the list of its white-space separated words.
RECURSIVE joinSentences(_)
joinSentences(selected) ==
    IF selected = <<>> THEN <<>>
    ELSE LET s == Head(selected)
         IN  SubSeq(s, 1, Len(s) - 1) \o <<s[Len(s)] \o ".">> \o joinSentences(Tail(selected))

extractiveSummary(content, maxLength) ==
    LET selected == selectedSentences(content, maxLength)
    IN  Text(IF selected = <<>> THEN <<".">> ELSE joinSentences(selected), " ", 0)

\* extractiveSummary's arguments are drawn, then the function is applied.
ExtractiveInit ==
    /\ ReservationInit
    /\ call \in {[tool |-> "extractiveSummary", pc |-> "args", content |-> content,
                  maxLength |-> maxLength, result |-> EmptyText] :
                    content \in CleanContents(MaxSentences), maxLength \in -1..MaxBudget}
    /\ net = <<>>
    /\ planLog = {}

ExtractiveApply ==
    /\ call.tool = "extractiveSummary"
    /\ call.pc = "args"
    /\ call' = [call EXCEPT !.pc = "done",
                            !.result = extractiveSummary(call.content, call.maxLength)]
    /\ UNCHANGED <<net, planLog, reservationVars>>

SpecExtractive == ExtractiveInit /\ [][ExtractiveApply]_vars

(***************************************************************************)
(* Meeting summary server: LocalFileService and the tools' continuations   *)
(***************************************************************************)
MaxContentLength == 1000000

MinWordCount == 10

DefaultTaskSummaryLength == 300

\* Contents as the tools receive them.
ToolContents ==
    {Content(sentences, gap, pad) :
        sentences \in SentenceLists(MaxDocSentences), gap \in {" ", "\n\n"},
        pad \in {0, 2, MaxContentLength + 1}}
    \cup {Content(sentences, gap,
                  MaxContentLength - contentLength(Content(sentences, gap, 0))) :
             sentences \in SentenceLists(MaxDocSentences), gap \in {" ", "\n\n"}}

\* content.split(/\s+/).filter(word => word.length > 0).length
countWords(content) == Len(Flatten(content.sentences))

\* validateContent that tests the size before it tests for blank content.
validateContentSizeFirst(content) ==
    IF contentLength(content) > MaxContentLength
    THEN [isValid |-> FALSE, error |-> "Content is too large (max 1MB)"]
    ELSE IF content.sentences = <<>>
    THEN [isValid |-> FALSE, error |-> "Content cannot be empty"]
    ELSE IF countWords(content) < MinWordCount
    THEN [isValid |-> FALSE,
          error |-> "Content must contain at least 10 words for meaningful summarization"]
    ELSE [isValid |-> TRUE, error |-> ""]

\* validateContent without its word-count test.
validateContentNoMinimum(content) ==
    IF content.sentences = <<>>
    THEN [isValid |-> FALSE, error |-> "Content cannot be empty"]
    ELSE IF contentLength(content) > MaxContentLength
    THEN [isValid |-> FALSE, error |-> "Content is too large (max 1MB)"]
    ELSE [isValid |-> TRUE, error |-> ""]

validateContent(content) ==
    IF content.sentences = <<>>
    THEN [isValid |-> FALSE, error |-> "Content cannot be empty"]
    ELSE IF contentLength(content) > MaxContentLength
    THEN [isValid |-> FALSE, error |-> "Content is too large (max 1MB)"]
    ELSE IF countWords(content) < MinWordCount
    THEN [isValid |-> FALSE, error |-> "Content must contain at least 10 words for meaningful summarization"]
    ELSE [isValid |-> TRUE, error |-> ""]

\* cleanTextContent that normalises the blank lines and trims, without the
\* replacement of every white-space run by one space.
cleanTextContentKeepParagraphs(content) == Content(content.sentences, content.gap, 0)

\* All white space runs become one space; the ends are trimmed.
cleanTextContent(content) == Content(content.sentences, " ", 0)

processTextContent(content, title) ==
    IF content.sentences = <<>>
    THEN Thrown("Document content cannot be empty")
    ELSE Returned([title |-> title, content |-> cleanTextContent(content),
                   wordCount |-> countWords(cleanTextContent(content))])

getDocumentStats(content) ==
    [wordCount |-> countWords(content),
     characterCount |-> contentLength(content),
     paragraphCount |-> IF content.gap = "\n\n" /\ Len(content.sentences) > 1
                        THEN Len(content.sentences) ELSE 1,
     estimatedReadingTime |-> (countWords(content) + 199) \div 200]

\* `value || fallback` for an optional number: absent and 0 give the fallback.
orDefault(optional, fallback) ==
    IF optional.given /\ optional.value # 0 THEN optional.value ELSE fallback

generateJiraTaskDescription(summary, originalDocUrl) ==
    [summary |-> summary.summary, keyTopics |-> summary.keyTopics,
     actionItems |-> summary.actionItems, originalDocument |-> originalDocUrl,
     wordCount |-> summary.wordCount,
     kCharacters |-> (summary.originalLength + 500) \div 1000]

\* What the calling tool does, in the same turn, with summarizeDocument's
\* return value: summarize_document formats its response and returns,
\* create_jira_task_from_doc builds the description and calls createIssue.
Continuation(s) ==
    CASE s.tool = "summarize_document" ->
           [s EXCEPT !.pc = "done",
                     !.resp = Response("#", "Document Summary",
                                 <<[title |-> s.title, summary |-> s.summary,
                                    keyTopics |-> s.keyTopics, actionItems |-> s.actionItems,
                                    originalLength |-> s.originalLength,
                                    summaryWords |-> s.wordCount,
                                    wordCount |-> countWords(s.content)]>>)]
      [] s.tool = "create_jira_task_from_doc" -> [s EXCEPT !.pc = "jira"]
      [] OTHER -> s

\* requestsOf that sends the create-issue request as soon as the summary text
\* is there, before the key topics and the action items, and again at the end.
requestsOfEager(c) ==
    IF c.tool = "create_jira_task_from_doc" /\ c.pc \in {"keyTopics", "actionItems", "jira"}
    THEN <<Request("jira", <<"POST /rest/api/3/issue",
                             generateJiraTaskDescription(c, c.title)>>, "pending")>>
    ELSE <<>>

\* The requests a frame that has just been entered sends before it yields.
requestsOf(c) ==
    IF c.pc = "jira"
    THEN <<Request("jira", <<"POST /rest/api/3/issue",
                             generateJiraTaskDescription(c, c.title)>>, "pending")>>
    ELSE <<>>

(***************************************************************************)
(* DocumentSummarizer.summarizeDocument and the Workers AI binding         *)
(***************************************************************************)
DefaultMaxLength == 500

TopicLimit == 8

ActionItemLimit == 5

\* An optional numeric argument: absent (undefined) or a number.
Undefined == [given |-> FALSE, value |-> 0]

Number(n) == [given |-> TRUE, value |-> n]

SummaryReplies ==
    { Text(<<>>, " ", 0), Text(<<>>, " ", 2), Text(<<"Decisions", "recorded.">>, " ", 1) }

\* Replies to the key-topics prompt: comma separated fields, given trimmed
\* ("" is a blank field).
TopicReplies ==
    { Text(<<>>, ",", 1),
      Text(<<"budget", "", "roadmap">>, ",", 0),
      Text(<<"t1", "t2", "t3", "t4", "t5", "t6", "t7", "t8", "t9">>, ",", 1) }

\* Replies to the action-items prompt, line by line.
ActionReplies ==
    { Text(<<"Next steps:", "1. Send notes", "2.", "3. Book room">>, "\n", 0),
      Text(<<"1. Send notes", "3. Book room", "4. Email team", "5. Fix build",
             "6. Ship", "7. Retro">>, "\n", 1),
      Text(<<"Nothing to do">>, "\n", 0) }

\* What env.AI.run can do: throw, resolve to something without a `response`
\* string, or resolve to { response }.
AIOutcomes(replies) ==
    {[kind |-> kind, response |-> EmptyText] : kind \in {"threw", "malformed"}}
        \cup {[kind |-> "replied", response |-> response] : response \in replies}

Null == [isNull |-> TRUE, text |-> EmptyText]

\* DocumentSummarizer.callAI: null without the binding, on a throw and on a
\* falsy response.response; the trimmed text otherwise.
callAI(binding, outcome) ==
    IF ~binding THEN Null
    ELSE IF outcome.kind = "replied" /\ NonEmpty(outcome.response)
         THEN [isNull |-> FALSE, text |-> trim(outcome.response)]
         ELSE Null

\* Truthiness of callAI's result: neither null nor ''.
Truthy(aiResult) == ~aiResult.isNull /\ NonEmpty(aiResult.text)

\* generateAISummary falling back on null only, so that '' counts as a summary.
generateAISummaryNullOnly(content, maxLength, aiResult) ==
    IF aiResult.isNull THEN extractiveSummary(content, maxLength) ELSE aiResult.text

generateAISummary(content, maxLength, aiResult) ==
    IF ~Truthy(aiResult) THEN extractiveSummary(content, maxLength) ELSE aiResult.text

\* extractAIKeyTopics without its slice.
extractAIKeyTopicsUnlimited(aiResult) ==
    IF Truthy(aiResult)
    THEN SelectSeq(aiResult.text.parts, LAMBDA topic : topic # "")
    ELSE <<>>

extractAIKeyTopics(aiResult) ==
    IF Truthy(aiResult)
    THEN slice(SelectSeq(aiResult.text.parts, LAMBDA topic : topic # ""), TopicLimit)
    ELSE <<>>

\* line.match(/^\d+\./)
isNumbered(line) ==
    line \in {"1. Send notes", "2.", "3. Book room", "4. Email team", "5. Fix build",
              "6. Ship", "7. Retro"}

\* line.replace(/^\d+\.\s*/, '').trim()
numberedItem(line) ==
    CASE line = "1. Send notes" -> "Send notes"
      [] line = "2." -> ""
      [] line = "3. Book room" -> "Book room"
      [] line = "4. Email team" -> "Email team"
      [] line = "5. Fix build" -> "Fix build"
      [] line = "6. Ship" -> "Ship"
      [] line = "7. Retro" -> "Retro"

extractAIActionItems(aiResult) ==
    IF Truthy(aiResult)
    THEN LET numbered == SelectSeq(aiResult.text.parts, isNumbered)
             items == [i \in 1..Len(numbered) |-> numberedItem(numbered[i])]
         IN  slice(SelectSeq(items, LAMBDA item : item # ""), ActionItemLimit)
    ELSE <<>>

\* The frame of a summarizeDocument invocation, options destructured.
summarizeDocument(tool, content, maxLength, includeKeyTopics, includeActionItems, binding) ==
    [tool |-> tool, pc |-> "summary", content |-> content,
     maxLength |-> IF maxLength.given THEN maxLength.value ELSE DefaultMaxLength,
     includeKeyTopics |-> includeKeyTopics, includeActionItems |-> includeActionItems,
     binding |-> binding,
     summary |-> EmptyText, keyTopics |-> <<>>, actionItems |-> <<>>,
     wordCount |-> 0, originalLength |-> 0, resp |-> NoResponse]

Summarizing == call.tool \in {"summarizeDocument", "summarize_document", "create_jira_task_from_doc"}

\* env.AI.run is reached only with the binding; the request is then logged.
AIRequest(prompt, outcome) ==
    IF call.binding THEN Append(net, Request("workers_ai", prompt, outcome)) ELSE net

\* summarizeDocument's return value, once nothing is left to await.
Summarized(c) ==
    Continuation([c EXCEPT !.pc = "summarized",
                           !.wordCount = splitLength(c.summary),
                           !.originalLength = contentLength(c.content)])

AfterKeyTopics(c) ==
    IF c.includeActionItems THEN [c EXCEPT !.pc = "actionItems"] ELSE Summarized(c)

AfterSummary(c) ==
    IF c.includeKeyTopics THEN [c EXCEPT !.pc = "keyTopics"] ELSE AfterKeyTopics(c)

\* await generateAISummary
SummaryGenerated ==
    /\ Summarizing
    /\ call.pc = "summary"
    /\ \E outcome \in AIOutcomes(SummaryReplies) :
          /\ call' = AfterSummary([call EXCEPT !.summary =
                        generateAISummary(call.content, call.maxLength,
                                          callAI(call.binding, outcome))])
          /\ net' = AIRequest("summary", outcome) \o requestsOf(call')
    /\ UNCHANGED <<planLog, reservationVars>>

\* await extractAIKeyTopics
KeyTopicsExtracted ==
    /\ Summarizing
    /\ call.pc = "keyTopics"
    /\ \E outcome \in AIOutcomes(TopicReplies) :
          /\ call' = AfterKeyTopics([call EXCEPT !.keyTopics =
                        extractAIKeyTopics(callAI(call.binding, outcome))])
          /\ net' = AIRequest("key_topics", outcome) \o requestsOf(call')
    /\ UNCHANGED <<planLog, reservationVars>>

\* await extractAIActionItems
ActionItemsExtracted ==
    /\ Summarizing
    /\ call.pc = "actionItems"
    /\ \E outcome \in AIOutcomes(ActionReplies) :
          /\ call' = Summarized([call EXCEPT !.actionItems =
                        extractAIActionItems(callAI(call.binding, outcome))])
          /\ net' = AIRequest("action_items", outcome) \o requestsOf(call')
    /\ UNCHANGED <<planLog, reservationVars>>

\* summarizeDocument called directly, its arguments drawn at the start.
SummarizerInit ==
    /\ ReservationInit
    /\ call \in {summarizeDocument("summarizeDocument", content, maxLength,
                                   includeKeyTopics, includeActionItems, binding) :
                    content \in CleanContents(MaxDocSentences),
                    maxLength \in {Undefined} \cup {Number(n) : n \in -1..MaxBudget},
                    includeKeyTopics \in BOOLEAN, includeActionItems \in BOOLEAN,
                    binding \in BOOLEAN}
    /\ net = <<>>
    /\ planLog = {}

SummarizerNext ==
    \/ SummaryGenerated
    \/ KeyTopicsExtracted
    \/ ActionItemsExtracted

SpecSummarizer == SummarizerInit /\ [][SummarizerNext]_vars

(***************************************************************************)
(* Meeting summary server: the document and Jira tools                     *)
(***************************************************************************)
\* A tool's frame around the summarizeDocument call it awaits.
ToolFrame(content, title, frame) ==
    [input |-> content, title |-> IF title = "" THEN "Document" ELSE title,
     tool |-> frame.tool, pc |-> frame.pc, content |-> frame.content,
     maxLength |-> frame.maxLength, includeKeyTopics |-> frame.includeKeyTopics,
     includeActionItems |-> frame.includeActionItems, binding |-> frame.binding,
     summary |-> frame.summary, keyTopics |-> frame.keyTopics,
     actionItems |-> frame.actionItems, wordCount |-> frame.wordCount,
     originalLength |-> frame.originalLength, resp |-> frame.resp]

Failed(tool, content, prefix, kind, message) ==
    [tool |-> tool, pc |-> "done", input |-> content,
     resp |-> Response(prefix, kind, <<message>>)]

StartSummarizeDocument ==
    /\ call.pc = "idle"
    /\ \E content \in ToolContents, title \in {"", "Minutes"}, maxLength \in {Undefined, Number(0), Number(-1), Number(MaxBudget)},
          includeActionItems \in BOOLEAN, includeKeyTopics \in BOOLEAN, binding \in BOOLEAN :
          LET validation == validateContent(content)
              documentContent == processTextContent(content, title)
          IN  IF ~validation.isValid
              THEN Invoke(Failed("summarize_document", content, "Error",
                                 "Error processing document", validation.error), <<>>)
              ELSE IF documentContent.threw
              THEN Invoke(Failed("summarize_document", content, "Error",
                                 "Error processing document", documentContent.message), <<>>)
              ELSE Invoke(ToolFrame(content, title,
                              summarizeDocument("summarize_document",
                                  documentContent.value.content,
                                  Number(orDefault(maxLength, DefaultMaxLength)),
                                  includeKeyTopics, includeActionItems, binding)), <<>>)
    /\ UNCHANGED <<planLog, reservationVars>>

ValidateDocumentContent ==
    /\ call.pc = "idle"
    /\ \E content \in ToolContents, title \in {"", "Minutes"} :
          LET validation == validateContent(content)
              documentContent == processTextContent(content, title)
          IN  IF ~validation.isValid
              THEN Invoke(Failed("validate_document_content", content, "Validation failed",
                                 "Validation failed", validation.error), <<>>)
              ELSE IF documentContent.threw
              THEN Invoke(Failed("validate_document_content", content, "Error",
                                 "Error validating document", documentContent.message), <<>>)
              ELSE Invoke([tool |-> "validate_document_content", pc |-> "done",
                           input |-> content,
                           resp |-> Response("#", "Document Validation Results",
                                       <<IF title = "" THEN "Document" ELSE title,
                                         documentContent.value.wordCount,
                                         contentLength(documentContent.value.content),
                                         getDocumentStats(documentContent.value.content)>>)],
                          <<>>)
    /\ UNCHANGED <<planLog, reservationVars>>

\* getJiraService: the three environment variables are set or they are not.
getJiraService(configured) ==
    IF configured
    THEN Returned("JiraService")
    ELSE Thrown("Failed to initialize Jira service: Jira configuration is incomplete")

StartCreateJiraTask ==
    /\ call.pc = "idle"
    /\ \E content \in ToolContents, documentTitle \in {"", "Minutes"},
          maxSummaryLength \in {Undefined, Number(0), Number(-1), Number(MaxBudget)},
          binding \in BOOLEAN, configured \in BOOLEAN :
          LET jiraService == getJiraService(configured)
              validation == validateContent(content)
              documentContent == processTextContent(content, documentTitle)
              \* the frame remembers whether the Jira variables were set
              Frame(frame) == [configured |-> configured] @@ frame
          IN  IF jiraService.threw
              THEN Invoke(Frame(Failed("create_jira_task_from_doc", content, "Error",
                                       "Error", jiraService.message)), <<>>)
              ELSE IF ~validation.isValid
              THEN Invoke(Frame(Failed("create_jira_task_from_doc", content, "Error",
                                       "Error", validation.error)), <<>>)
              ELSE IF documentContent.threw
              THEN Invoke(Frame(Failed("create_jira_task_from_doc", content, "Error",
                                       "Error", documentContent.message)), <<>>)
              ELSE Invoke(Frame(ToolFrame(content, documentTitle,
                              summarizeDocument("create_jira_task_from_doc",
                                  documentContent.value.content,
                                  Number(orDefault(maxSummaryLength, DefaultTaskSummaryLength)),
                                  TRUE, TRUE, binding))), <<>>)
    /\ UNCHANGED <<planLog, reservationVars>>

\* JiraService.createIssue settles and the tool formats the result.
CreateJiraIssueDone ==
    /\ call.tool = "create_jira_task_from_doc"
    /\ call.pc = "jira"
    /\ \E outcome \in {"network_error", "not_ok", "ok"} :
          /\ Settle(outcome)
          /\ Respond(IF outcome = "ok"
                     THEN Response("#", "Jira Task Created Successfully",
                              <<[summary |-> "taskTitle", status |-> "Open",
                                 description |-> generateJiraTaskDescription(call, call.title)]>>)
                     ELSE Response("Error", "Error", <<"Failed to create Jira issue">>))
    /\ UNCHANGED <<planLog, reservationVars>>

\* list_jira_projects and get_jira_issue_types up to their one request.
StartJiraQuery ==
    /\ call.pc = "idle"
    /\ \E tool \in {"list_jira_projects", "get_jira_issue_types"}, configured \in BOOLEAN :
          IF getJiraService(configured).threw
          THEN Invoke([tool |-> tool, pc |-> "done",
                       resp |-> Response("Error", "Error",
                                         <<getJiraService(configured).message>>)], <<>>)
          ELSE Invoke([tool |-> tool, pc |-> "jira", resp |-> NoResponse],
                      <<Request("jira", IF tool = "list_jira_projects"
                                        THEN "GET /rest/api/3/project"
                                        ELSE "GET /rest/api/3/issue/createmeta", "pending")>>)
    /\ UNCHANGED <<planLog, reservationVars>>

\* The request fails to connect, is answered non-OK, is answered OK without
\* the expected project, or is answered OK.
JiraQueryDone ==
    /\ call.tool \in {"list_jira_projects", "get_jira_issue_types"}
    /\ call.pc = "jira"
    /\ \E outcome \in {"network_error", "not_ok", "no_project", "ok"} :
          /\ Settle(outcome)
          /\ Respond(CASE call.tool = "list_jira_projects" /\ outcome \in {"ok", "no_project"} ->
                            Response("#", "Available Jira Projects", <<outcome>>)
                       [] call.tool = "get_jira_issue_types" /\ outcome = "ok" ->
                            Response("#", "Issue Types for Project", <<outcome>>)
                       [] call.tool = "list_jira_projects" ->
                            Response("Error", "Error", <<"Failed to list projects">>)
                       [] OTHER ->
                            Response("Error", "Error", <<"Failed to get issue types">>))
    /\ UNCHANGED <<planLog, reservationVars>>

MeetingNext ==
    \/ StartSummarizeDocument
    \/ SummaryGenerated
    \/ KeyTopicsExtracted
    \/ ActionItemsExtracted
    \/ ValidateDocumentContent
    \/ StartCreateJiraTask
    \/ CreateJiraIssueDone
    \/ StartJiraQuery
    \/ JiraQueryDone

\* The document and Jira tools keep nothing between invocations, so a
\* behaviour is one invocation from the constructed server.
SpecMeeting == Init /\ [][MeetingNext]_vars

(***************************************************************************)
(* Travel planner: FlightService, HotelService, CalendarService and        *)
(* BookingService                                                          *)
(***************************************************************************)
MaxDay == 2

MaxItems == 2

\* A YYYY-MM-DD parameter: a string `new Date` cannot parse, or a day.
DateStrings ==
    {[valid |-> FALSE, day |-> 0]} \cup {[valid |-> TRUE, day |-> d] : d \in 1..MaxDay}

\* What a provider request can do: fail to connect, answer non-OK, answer OK
\* with a body of another shape, or answer OK with `items` well-formed items.
ProviderOutcomes ==
    {[kind |-> k, items |-> 0] : k \in {"network_error", "not_ok", "malformed"}}
      \cup {[kind |-> "ok", items |-> n] : n \in 0..MaxItems}

getMockFlights(params) ==
    << [id |-> <<"mock_flight", 1>>, flightNumber |-> "AA1234",
        origin |-> params.origin, destination |-> params.destination,
        date |-> params.departureDate],
       [id |-> <<"mock_flight", 2>>, flightNumber |-> "DL5678",
        origin |-> params.origin, destination |-> params.destination,
        date |-> params.departureDate] >>

\* searchFlights that answers a failed request with no flight.
searchFlightsEmptyOnFailure(params, outcome) ==
    [index \in 1..outcome.items |->
        [id |-> <<"flight", index - 1>>, flightNumber |-> "provider",
         origin |-> params.origin, destination |-> params.destination,
         date |-> params.departureDate]]

\* The provider's flights are transformed; every failure inside the try,
\* the TypeError on a body of another shape included, ends in the mocks.
searchFlights(params, outcome) ==
    IF outcome.kind = "ok"
    THEN [index \in 1..outcome.items |->
            [id |-> <<"flight", index - 1>>, flightNumber |-> "provider",
             origin |-> params.origin, destination |-> params.destination,
             date |-> params.departureDate]]
    ELSE getMockFlights(params)

\* The first location's gaiaId, or the default region.
getRegionId(outcome) ==
    IF outcome.kind = "ok" /\ outcome.items > 0 THEN "gaiaId" ELSE "6054439"

getMockHotels(params) ==
    << [id |-> <<"mock_hotel", 1>>, name |-> "Grand Plaza Hotel", rating |-> 42,
        pricePerNight |-> 180, city |-> params.destination],
       [id |-> <<"mock_hotel", 2>>, name |-> "City Center Inn", rating |-> 38,
        pricePerNight |-> 120, city |-> params.destination],
       [id |-> <<"mock_hotel", 3>>, name |-> "Boutique Suites", rating |-> 46,
        pricePerNight |-> 250, city |-> params.destination] >>

\* Ratings are in tenths. The provider's hotel `index` is rated 3.0 + index/10
\* and costs 100 * index a night. minRating and maxPrice are passed and never
\* read.
searchHotels(params, outcome) ==
    IF outcome.kind = "ok"
    THEN [index \in 1..outcome.items |->
            [id |-> <<"hotel", index - 1>>, name |-> "provider", rating |-> 30 + index,
             pricePerNight |-> 100 * index, city |-> "provider"]]
    ELSE getMockHotels(params)

\* Times are hours since the epoch of day 0; the server's zone is UTC.
\* Team Meeting: the day after `start`, same hour, one hour long.
\* Client Presentation: two days after `start` at 14:00, two hours long.
getMockEvents(start) ==
    << [id |-> "mock_event_1", summary |-> "Team Meeting",
        start |-> start + 24, end |-> start + 25, location |-> "Conference Room A"],
       [id |-> "mock_event_2", summary |-> "Client Presentation",
        start |-> 24 * ((start \div 24) + 2) + 14,
        end |-> 24 * ((start \div 24) + 2) + 16, location |-> "Client Office"] >>

\* getEvents for parseable dates (the tool passes ISO strings). The
\* provider's events lie in the requested window, whose first day is the day
\* before the travel: event `index` starts 7 - 2 * index hours before the
\* travel start and lasts one hour; the first is at an airport.
getEvents(start, end, outcome) ==
    IF outcome.kind = "ok"
    THEN [index \in 1..outcome.items |->
            [id |-> <<"event", index>>, summary |-> "provider",
             start |-> start + 17 + 2 * index, end |-> start + 18 + 2 * index,
             location |-> IF index = 1 THEN "Airport Terminal 1" ELSE ""]]
    ELSE getMockEvents(start)

isOverlapping(start1, end1, start2, end2) == start1 < end2 /\ start2 < end1

isTooClose(start1, end1, start2, end2) ==
    LET timeDiff == IF end1 >= start2 THEN end1 - start2 ELSE start2 - end1
    IN  timeDiff < 1

\* eventLocation.toLowerCase() includes 'airport', 'terminal' or 'gate'.
requiresTravelTime(eventLocation) == eventLocation \in {"Airport Terminal 1"}

\* Departure buffer: 4 hours before the start; return buffer: 2 hours after
\* the end.
RECURSIVE checkConflicts(_, _, _)
checkConflicts(events, travelStart, travelEnd) ==
    IF events = <<>> THEN <<>>
    ELSE LET event == Head(events)
             Conflict(type, severity) ==
                 [type |-> type, eventId |-> event.id, eventTitle |-> event.summary,
                  conflictTime |-> event.start, severity |-> severity]
         IN  (IF isOverlapping(event.start, event.end, travelStart, travelEnd)
              THEN <<Conflict("overlap", "high")>> ELSE <<>>)
             \o (IF isTooClose(event.start, event.end, travelStart - 4, travelStart)
                 THEN <<Conflict("tight_schedule", "medium")>> ELSE <<>>)
             \o (IF isTooClose(travelEnd + 2, travelEnd, event.start, event.end)
                 THEN <<Conflict("tight_schedule", "medium")>> ELSE <<>>)
             \o (IF event.location # "" /\ requiresTravelTime(event.location)
                 THEN <<Conflict("travel_time", "low")>> ELSE <<>>)
             \o checkConflicts(Tail(events), travelStart, travelEnd)

\* bookFlight that fills details.flight with the times of the booked flight.
bookFlightPopulated(request, confirmationNumber, outcome) ==
    IF outcome = "ok"
    THEN Returned([confirmationNumber |-> confirmationNumber, status |-> "confirmed",
                   totalPrice |-> 0, currency |-> "USD", type |-> "flight",
                   start |-> [valid |-> TRUE, day |-> 1],
                   end |-> [valid |-> TRUE, day |-> 1]])
    ELSE Thrown("Flight booking failed. Please try again.")

\* A booking body runs through ("ok"), or something in it fails and its
\* catch rethrows the fixed message ("failed").
\* details.flight is the empty object: the event times that addToCalendar
\* reads from it are undefined.
bookFlight(request, confirmationNumber, outcome) ==
    IF outcome = "ok"
    THEN Returned([confirmationNumber |-> confirmationNumber, status |-> "confirmed",
                   totalPrice |-> 0, currency |-> "USD", type |-> "flight",
                   start |-> [valid |-> FALSE, day |-> 0],
                   end |-> [valid |-> FALSE, day |-> 0]])
    ELSE Thrown("Flight booking failed. Please try again.")

\* bookHotel that charges the nightly price of the Grand Plaza Hotel.
bookHotelPriced(request, confirmationNumber, outcome) ==
    IF outcome = "ok"
    THEN Returned([confirmationNumber |-> confirmationNumber, status |-> "confirmed",
                   totalPrice |-> 180, currency |-> "USD", type |-> "hotel",
                   start |-> request.checkIn, end |-> request.checkOut])
    ELSE Thrown("Hotel booking failed. Please try again.")

bookHotel(request, confirmationNumber, outcome) ==
    IF outcome = "ok"
    THEN Returned([confirmationNumber |-> confirmationNumber, status |-> "confirmed",
                   totalPrice |-> 0, currency |-> "USD", type |-> "hotel",
                   start |-> request.checkIn, end |-> request.checkOut])
    ELSE Thrown("Hotel booking failed. Please try again.")

\* createCalendarEvent sends its request once both times convert;
\* toISOString of an unparseable time throws before it.
createCalendarEvent(booking, outcome) ==
    IF ~(booking.start.valid /\ booking.end.valid) THEN Thrown("Invalid time value")
    ELSE IF outcome = "network_error" THEN Thrown("fetch failed")
    ELSE IF outcome = "not_ok" THEN Thrown("Calendar API error")
    ELSE Returned(<<>>)

\* addToCalendar that lets the failure of the calendar event out.
addToCalendarRethrow(booking, outcome) == createCalendarEvent(booking, outcome)

\* The catch logs and returns.
addToCalendar(booking, outcome) ==
    IF createCalendarEvent(booking, outcome).threw THEN Returned(<<>>) ELSE Returned(<<>>)

createTravelPlan(planId, title) ==
    [id |-> planId, title |-> title, status |-> "planning", flights |-> <<>>,
     hotels |-> <<>>]

NullPlan == [id |-> "", title |-> "", status |-> "null", flights |-> <<>>, hotels |-> <<>>]

\* getTravelPlan that knows only the plans created before.
getTravelPlanCreated(planId) ==
    IF \E entry \in planLog : entry.id = planId
    THEN [id |-> planId, title |-> "European Adventure", status |-> "planning",
          flights |-> <<>>, hotels |-> <<>>]
    ELSE NullPlan

getTravelPlan(planId) ==
    [id |-> planId, title |-> "European Adventure", status |-> "planning",
     flights |-> <<>>, hotels |-> <<>>]

(***************************************************************************)
(* Travel planner: the tools                                               *)
(***************************************************************************)
\* A handler's frame: its arguments, what its service returned, the
\* message its catch received ("" when it caught nothing), its response.
Travel(tool, pc, args, result, caught, resp) ==
    [tool |-> tool, pc |-> pc, args |-> args, result |-> result, caught |-> caught,
     resp |-> resp]

StartSearchFlights ==
    /\ call.pc = "idle"
    /\ \E departureDate \in DateStrings, flightClass \in {"economy", "first"} :
          Invoke(Travel("search_flights", "flights",
                        [origin |-> "JFK", destination |-> "LHR",
                         departureDate |-> departureDate, class |-> flightClass],
                        <<>>, "", NoResponse),
                 <<Request("aviationstack", <<"/flights", departureDate>>, "pending")>>)
    /\ UNCHANGED <<planLog, reservationVars>>

SearchFlightsDone ==
    /\ call.tool = "search_flights"
    /\ call.pc = "flights"
    /\ \E outcome \in ProviderOutcomes :
          LET flights == searchFlights(call.args, outcome)
          IN  /\ Settle(outcome)
              /\ call' = [call EXCEPT !.pc = "done", !.result = flights,
                                      !.resp = Response("Found", "flights", flights)]
    /\ UNCHANGED <<planLog, reservationVars>>

\* searchHotels awaits getRegionId first.
StartSearchHotels ==
    /\ call.pc = "idle"
    /\ \E checkIn \in DateStrings, checkOut \in DateStrings, minRating \in {0, 45},
          maxPrice \in {0, 150} :
          Invoke(Travel("search_hotels", "region",
                        [destination |-> "Paris", checkIn |-> checkIn,
                         checkOut |-> checkOut, minRating |-> minRating,
                         maxPrice |-> maxPrice],
                        <<>>, "", NoResponse),
                 <<Request("hotels_com", <<"/v1/hotels/locations", "Paris">>, "pending")>>)
    /\ UNCHANGED <<planLog, reservationVars>>

HotelRegionResolved ==
    /\ call.tool = "search_hotels"
    /\ call.pc = "region"
    /\ \E outcome \in ProviderOutcomes :
          /\ net' = Append([net EXCEPT ![1].outcome = outcome],
                           Request("hotels_com", <<"/v2/hotels/search", getRegionId(outcome)>>,
                                   "pending"))
          /\ call' = [call EXCEPT !.pc = "hotels"]
    /\ UNCHANGED <<planLog, reservationVars>>

SearchHotelsDone ==
    /\ call.tool = "search_hotels"
    /\ call.pc = "hotels"
    /\ \E outcome \in ProviderOutcomes :
          LET hotels == searchHotels(call.args, outcome)
          IN  /\ Settle(outcome)
              /\ call' = [call EXCEPT !.pc = "done", !.result = hotels,
                                      !.resp = Response("Found", "hotels", hotels)]
    /\ UNCHANGED <<planLog, reservationVars>>

\* The buffer is a day either side; toISOString of an unparseable date
\* throws into the handler's catch before getEvents is called.
StartCheckCalendarConflicts ==
    /\ call.pc = "idle"
    /\ \E startDate \in DateStrings, endDate \in DateStrings :
          LET args == [startDate |-> startDate, endDate |-> endDate]
          IN  IF ~startDate.valid \/ ~endDate.valid
              THEN Invoke(Travel("check_calendar_conflicts", "done", args, <<>>,
                                 "Invalid time value",
                                 Response("Error", "Error checking calendar conflicts",
                                          <<"Invalid time value">>)), <<>>)
              ELSE Invoke(Travel("check_calendar_conflicts", "events", args, <<>>, "",
                                 NoResponse),
                          <<Request("google_calendar",
                                    <<"/calendars/primary/events", 24 * (startDate.day - 1),
                                      24 * (endDate.day + 1)>>, "pending")>>)
    /\ UNCHANGED <<planLog, reservationVars>>

CheckCalendarConflictsDone ==
    /\ call.tool = "check_calendar_conflicts"
    /\ call.pc = "events"
    /\ \E outcome \in ProviderOutcomes :
          LET events == getEvents(24 * (call.args.startDate.day - 1),
                                  24 * (call.args.endDate.day + 1), outcome)
              conflicts == checkConflicts(events, 24 * call.args.startDate.day,
                                          24 * call.args.endDate.day)
          IN  /\ Settle(outcome)
              /\ call' = [call EXCEPT
                    !.pc = "done", !.result = events,
                    !.resp = IF conflicts = <<>>
                             THEN Response("No calendar conflicts found", "clear", <<>>)
                             ELSE Response("Found", "conflicts", conflicts)]
    /\ UNCHANGED <<planLog, reservationVars>>

\* The first characters of book_hotel's two texts are, in the source file,
\* U+201A U+00FA U+00D6 and U+201A U+00F9 U+00E5.
BookingResponse(tool, confirmation, error) ==
    CASE tool = "book_flight" /\ error = "" ->
           Response(CheckMark, "Flight booked successfully!", <<confirmation>>)
      [] tool = "book_flight" ->
           Response(CrossMark, "Flight booking failed", <<error>>)
      [] tool = "book_hotel" /\ error = "" ->
           Response("U+201A U+00FA U+00D6", "Hotel booked successfully!", <<confirmation>>)
      [] OTHER ->
           Response("U+201A U+00F9 U+00E5", "Hotel booking failed", <<error>>)

\* From the settling of `await addToCalendar` to the handler's return.
AfterCalendar(c, added) ==
    [c EXCEPT !.pc = "done",
              !.caught = IF added.threw THEN added.message ELSE "",
              !.resp = BookingResponse(c.tool, c.result,
                                       IF added.threw THEN added.message ELSE "")]

\* From the settling of `await bookFlight` or `await bookHotel` to the next
\* await: the catch, or addToCalendar up to its request, or, when
\* createCalendarEvent throws before its request, to the handler's return.
AfterBooking(c, confirmation) ==
    IF confirmation.threw
    THEN [c EXCEPT !.pc = "done", !.caught = confirmation.message,
                   !.resp = BookingResponse(c.tool, <<>>, confirmation.message)]
    ELSE IF confirmation.value.start.valid /\ confirmation.value.end.valid
    THEN [c EXCEPT !.pc = "calendar", !.result = confirmation.value]
    ELSE AfterCalendar([c EXCEPT !.result = confirmation.value],
                       addToCalendar(confirmation.value, "ok"))

StartBookFlight ==
    /\ call.pc = "idle"
    /\ \E passengers \in 1..2 :
          Invoke(Travel("book_flight", "booking",
                        [flightId |-> "flight_0", passengers |-> passengers],
                        <<>>, "", NoResponse), <<>>)
    /\ UNCHANGED <<planLog, reservationVars>>

StartBookHotel ==
    /\ call.pc = "idle"
    /\ \E checkIn \in DateStrings, checkOut \in DateStrings :
          Invoke(Travel("book_hotel", "booking",
                        [hotelId |-> "hotel_0", checkIn |-> checkIn, checkOut |-> checkOut],
                        <<>>, "", NoResponse), <<>>)
    /\ UNCHANGED <<planLog, reservationVars>>

\* await bookingService.bookFlight / bookHotel
Booked ==
    /\ call.tool \in {"book_flight", "book_hotel"}
    /\ call.pc = "booking"
    /\ \E outcome \in {"ok", "failed"}, confirmationNumber \in {"K7Q2ZD", "M3X9PA"} :
          /\ call' = AfterBooking(call,
                        IF call.tool = "book_flight"
                        THEN bookFlight(call.args, confirmationNumber, outcome)
                        ELSE bookHotel(call.args, confirmationNumber, outcome))
          /\ net' = IF call'.pc = "calendar"
                    THEN <<Request("google_calendar",
                                   <<"POST /calendars/primary/events", call'.result.start,
                                     call'.result.end>>, "pending")>>
                    ELSE net
    /\ UNCHANGED <<planLog, reservationVars>>

\* The calendar request settles; addToCalendar returns to the handler.
CalendarEventDone ==
    /\ call.tool \in {"book_flight", "book_hotel"}
    /\ call.pc = "calendar"
    /\ \E outcome \in {"network_error", "not_ok", "ok"} :
          /\ Settle(outcome)
          /\ call' = AfterCalendar(call, addToCalendar(call.result, outcome))
    /\ UNCHANGED <<planLog, reservationVars>>

\* planLog is the history of the plan ids the server has handed out or
\* booked; the server itself keeps none of it.
CreateTravelPlan ==
    /\ call.pc = "idle"
    /\ \E planId \in {"TP1", "TP2"}, title \in {"Summer"} :
          LET plan == createTravelPlan(planId, title)
          IN  /\ Invoke(Travel("create_travel_plan", "done", [title |-> title], plan, "",
                               Response(CheckMark, "Travel plan created successfully!",
                                        <<plan>>)), <<>>)
              /\ planLog' = planLog \cup {[id |-> planId, event |-> "created"]}
    /\ UNCHANGED reservationVars

GetTravelPlan ==
    /\ call.pc = "idle"
    /\ \E planId \in {"TP0", "TP1", "TP2"} :
          LET plan == getTravelPlan(planId)
          IN  Invoke(Travel("get_travel_plan", "done", [planId |-> planId], plan, "",
                            IF plan = NullPlan
                            THEN Response(CrossMark, "Travel plan not found", <<planId>>)
                            ELSE Response("U+1F4CB", "Travel Plan Details", <<plan>>)),
                     <<>>)
    /\ UNCHANGED <<planLog, reservationVars>>

\* bookTrip from the settling of a booking to its next await or its end.
\* `result` holds the confirmations so far, flights first.
\* The response carries the booked plan and totalCost, the reduce over the
\* flight confirmations followed by the hotel confirmations.
TripProgress(c, confirmations) ==
    LET RECURSIVE reduce(_)
        reduce(bookings) == IF bookings = <<>> THEN 0
                            ELSE reduce(SubSeq(bookings, 1, Len(bookings) - 1))
                                 + bookings[Len(bookings)].totalPrice
    IN  IF Len(confirmations) < c.args.flights + c.args.hotels
        THEN [c EXCEPT !.pc = "booking", !.result = confirmations]
        ELSE [c EXCEPT !.pc = "done", !.result = confirmations,
                       !.resp = Response("U+1F389", "Trip booked successfully!",
                                   <<[getTravelPlan(c.args.planId) EXCEPT
                                         !.status = "booked",
                                         !.flights = SubSeq(confirmations, 1, c.args.flights),
                                         !.hotels = SubSeq(confirmations, c.args.flights + 1,
                                                           Len(confirmations))],
                                     reduce(confirmations)>>)]

\* bookTrip whose failure hands back the confirmations obtained so far.
TripFailedPartial(c) ==
    [c EXCEPT !.pc = "done", !.caught = "Trip booking failed. Please try again.",
              !.resp = Response(CrossMark, "Trip booking failed",
                                <<"Trip booking failed. Please try again.">> \o c.result)]

TripFailed(c) ==
    [c EXCEPT !.pc = "done", !.caught = "Trip booking failed. Please try again.",
              !.resp = Response(CrossMark, "Trip booking failed",
                                <<"Trip booking failed. Please try again.">>)]

StartBookTrip ==
    /\ call.pc = "idle"
    /\ \E planId \in {"TP0", "TP1", "TP2"}, flights \in 0..MaxItems, hotels \in 0..MaxItems :
          LET frame == Travel("book_trip", "plan",
                              [planId |-> planId, flights |-> flights, hotels |-> hotels],
                              <<>>, "", NoResponse)
              next == IF getTravelPlan(planId) = NullPlan THEN TripFailed(frame)
                      ELSE TripProgress(frame, <<>>)
          IN  /\ Invoke(next, <<>>)
              /\ planLog' = IF next.pc = "done" /\ next.caught = ""
                            THEN planLog \cup {[id |-> planId, event |-> "booked"]}
                            ELSE planLog
    /\ UNCHANGED reservationVars

\* await this.bookFlight / this.bookHotel inside bookTrip
TripBookingDone ==
    /\ call.tool = "book_trip"
    /\ call.pc = "booking"
    /\ \E outcome \in {"ok", "failed"}, confirmationNumber \in {"K7Q2ZD", "M3X9PA"} :
          LET confirmation ==
                  IF Len(call.result) < call.args.flights
                  THEN bookFlight(call.args, confirmationNumber, outcome)
                  ELSE bookHotel([checkIn |-> [valid |-> TRUE, day |-> 1],
                                  checkOut |-> [valid |-> TRUE, day |-> 2]],
                                 confirmationNumber, outcome)
              next == IF confirmation.threw THEN TripFailed(call)
                      ELSE TripProgress(call, Append(call.result, confirmation.value))
          IN  /\ call' = next
              /\ planLog' = IF next.pc = "done" /\ next.caught = ""
                            THEN planLog \cup {[id |-> call.args.planId, event |-> "booked"]}
                            ELSE planLog
    /\ UNCHANGED <<net, reservationVars>>

TravelNext ==
    \/ StartSearchFlights
    \/ SearchFlightsDone
    \/ StartSearchHotels
    \/ HotelRegionResolved
    \/ SearchHotelsDone
    \/ StartCheckCalendarConflicts
    \/ CheckCalendarConflictsDone
    \/ StartBookFlight
    \/ StartBookHotel
    \/ Booked
    \/ CalendarEventDone
    \/ CreateTravelPlan
    \/ GetTravelPlan
    \/ StartBookTrip
    \/ TripBookingDone
    \/ ToolReturn

SpecTravel == Init /\ [][TravelNext]_vars

(***************************************************************************)
(* Claims                                                                  *)
(***************************************************************************)

\* C1: a cancel_reservation call that found a matching reservation leaves that
\* reservation in the list, in place, with status exactly "cancelled": from the
\* moment cancelReservation returned it, and for every reservation whose
\* cancellation was ever confirmed, whatever calls follow or interleave.
C1_CancelledInPlace ==
    /\ \A h \in Slots :
          (/\ handlers[h].tool = "cancel_reservation"
           /\ handlers[h].pc \in {"cancelled", "done"}
           /\ handlers[h].ref # 0)
          => /\ handlers[h].ref <= Len(mockReservations)
             /\ Matches(mockReservations[handlers[h].ref], handlers[h].reservationId,
                        handlers[h].request.customerEmail)
             /\ mockReservations[handlers[h].ref].status = "cancelled"
    /\ Len(cancelConf) = Len(mockReservations)
    /\ \A i \in 1..Len(mockReservations) :
          cancelConf[i] # NoResponse
          => /\ mockReservations[i].status = "cancelled"
             /\ mockReservations[i].id = cancelConf[i].body[1].id

\* C1 witness: a cancel_reservation handler has answered with the cancellation
\* confirmation of a stored reservation.
C1_Witness ==
    \E h \in Slots :
        /\ handlers[h].tool = "cancel_reservation"
        /\ handlers[h].pc = "done"
        /\ handlers[h].resp.kind = "reservation_cancelled"

\* A step of handler h, a cancel_reservation that found a reservation whose
\* cancellation had already been confirmed to an earlier call.
SecondCancelStep(h) ==
    /\ handlers[h].tool = "cancel_reservation"
    /\ handlers[h].second
    /\ handlers'[h] # handlers[h]

C3_WithinBudget ==
    (call.tool = "extractiveSummary" /\ call.pc = "done")
    => Words(call.result) <= call.maxLength

\* C3 amended: for every content and every maxLength of at least 1 the result
\* has at most maxLength white-space separated words; for a maxLength below 1
\* nothing is selected and the result is the lone full stop, one word.  In
\* both cases the selected sentences hold at most maxLength words together.
C3_WithinPositiveBudget ==
    (call.tool = "extractiveSummary" /\ call.pc = "done")
    => /\ call.maxLength >= 1 => Words(call.result) <= call.maxLength
       /\ call.maxLength < 1 => call.result = Text(<<".">>, " ", 0)
       /\ LET selected == selectedSentences(call.content, call.maxLength)
          IN  \/ selected = <<>> /\ call.result = Text(<<".">>, " ", 0)
              \/ /\ selected # <<>>
                 /\ Len(Flatten(selected)) <= call.maxLength
                 /\ Words(call.result) = Len(Flatten(selected))

\* C3 witness: a summary that fills its budget exactly and had to leave a
\* sentence out.
C3_Witness ==
    /\ call.tool = "extractiveSummary"
    /\ call.pc = "done"
    /\ call.maxLength >= 1
    /\ Words(call.result) = call.maxLength
    /\ call.result # Text(<<".">>, " ", 0)
    /\ Len(selectedSentences(call.content, call.maxLength))
          < Len(scoredSentences(call.content))

\* The summary call found no usable AI text: no binding, a throw, a reply
\* without a response string, or a response that is empty or blank.
AIUnavailable ==
    \/ ~call.binding
    \/ net[1].outcome.kind \in {"threw", "malformed"}
    \/ net[1].outcome.response.parts = <<>>

\* C5: once generateAISummary has returned, the summary is exactly the
\* extractive summarizer's output whenever the AI model was unavailable (no
\* binding, a throw, no text), and it is the AI's (trimmed) text only when
\* the call succeeded with non-empty text.
C5_ExtractiveFallback ==
    (Summarizing /\ call.pc \notin {"idle", "summary", "done"} /\ "summary" \in DOMAIN call)
    => /\ AIUnavailable
          => call.summary = extractiveSummary(call.content, call.maxLength)
       /\ ~AIUnavailable
          => /\ net[1].request = "summary"
             /\ call.summary = trim(net[1].outcome.response)
             /\ call.summary.parts # <<>>

\* C5 witness: the binding is there, the model replied with blanks only, and
\* summarizeDocument returned an extractive summary of selected sentences.
C5_Witness ==
    /\ call.tool = "summarizeDocument"
    /\ call.pc = "summarized"
    /\ call.binding
    /\ net[1].outcome.kind = "replied"
    /\ net[1].outcome.response = Text(<<>>, " ", 2)
    /\ call.summary = extractiveSummary(call.content, call.maxLength)
    /\ call.summary # Text(<<".">>, " ", 0)

\* The Yelp search request of the invocation failed.
YelpSearchFailed ==
    /\ call.tool = "search_restaurants"
    /\ call.pc = "done"
    /\ net[1].outcome.kind \in {"network_error", "not_ok", "malformed"}

\* C8: search_restaurants never substitutes mock results for a provider
\* failure: when the Yelp request fails the response is the error text
\* beginning with the cross mark and "Error searching restaurants", and it
\* holds no restaurant; the restaurants of any response are those the
\* provider listed.
C8_NoMockOnYelpFailure ==
    (call.tool = "search_restaurants" /\ call.pc = "done")
    => /\ YelpSearchFailed
          => /\ call.resp.prefix = CrossMark
             /\ call.resp.kind = "Error searching restaurants"
             /\ call.resp.body = <<"Failed to search restaurants">>
       /\ call.resp.kind = "restaurants"
          => /\ net[1].outcome.kind = "ok"
             /\ \A i \in 1..Len(call.resp.body) :
                   \E j \in 1..Len(net[1].outcome.businesses) :
                       call.resp.body[i].id = net[1].outcome.businesses[j]

\* C8 witness: a search whose Yelp request failed has answered with the error.
C8_Witness ==
    /\ YelpSearchFailed
    /\ call.resp.prefix = CrossMark

\* Content that is blank, longer than 1,000,000 characters or shorter than
\* 10 words.
RejectedContent(content) ==
    \/ content.sentences = <<>>
    \/ contentLength(content) > 1000000
    \/ Len(Flatten(content.sentences)) < 10

\* C4: in summarize_document and create_jira_task_from_doc, content that is
\* blank, longer than 1,000,000 characters or shorter than 10 words gets an
\* error response at once, and the invocation sends no request at all:
\* no AI model call and no Jira HTTP request.
C4_RejectedBeforeNetwork ==
    (/\ call.tool \in {"summarize_document", "create_jira_task_from_doc"}
     /\ RejectedContent(call.input))
    => /\ call.pc = "done"
       /\ call.resp.prefix = "Error"
       /\ net = <<>>

\* C4 witness: create_jira_task_from_doc, with Jira configured, has refused a
\* nine-word document.
C4_Witness ==
    /\ call.tool = "create_jira_task_from_doc"
    /\ call.pc = "done"
    /\ Len(Flatten(call.input.sentences)) = 9
    /\ call.input.pad = 0
    /\ call.resp.body = <<"Content must contain at least 10 words for meaningful summarization">>
    /\ net = <<>>

ProviderFailed ==
    /\ call.tool \in {"search_flights", "search_hotels", "check_calendar_conflicts"}
    /\ call.pc = "done"
    /\ net # <<>>
    /\ net[Len(net)].outcome.kind \in {"network_error", "not_ok"}

\* C7: searchFlights, searchHotels and getEvents never report a provider
\* failure: after a network error or a non-OK status the service's result is
\* its static mock data (flights AA1234 and DL5678; the three mock hotels;
\* the two mock events), the handler's catch receives nothing, and the tool
\* answers as it does for a successful call.
C7_MocksOnProviderFailure ==
    ProviderFailed
    => /\ call.caught = ""
       /\ call.resp.prefix \in {"Found", "No calendar conflicts found"}
       /\ call.tool = "search_flights"
          => /\ Len(call.result) = 2
             /\ call.result[1].flightNumber = "AA1234"
             /\ call.result[2].flightNumber = "DL5678"
             /\ call.resp = Response("Found", "flights", call.result)
       /\ call.tool = "search_hotels"
          => /\ Len(call.result) = 3
             /\ call.result[1].name = "Grand Plaza Hotel"
             /\ call.result[2].name = "City Center Inn"
             /\ call.result[3].name = "Boutique Suites"
             /\ call.resp = Response("Found", "hotels", call.result)
       /\ call.tool = "check_calendar_conflicts"
          => /\ Len(call.result) = 2
             /\ call.result[1].id = "mock_event_1"
             /\ call.result[2].id = "mock_event_2"

\* C7 witness: search_hotels has answered with the three mock hotels after
\* its search request came back non-OK.
C7_Witness ==
    /\ ProviderFailed
    /\ call.tool = "search_hotels"
    /\ net[2].outcome.kind = "not_ok"
    /\ Len(call.resp.body) = 3

\* C9: in book_flight and book_hotel, once the booking service has returned
\* a confirmation, the handler's catch receives nothing and the tool returns
\* the booking-success text with that confirmation, status 'confirmed',
\* whatever became of the calendar event: request answered OK, answered
\* non-OK, failed to connect, or never sent because the event's times did
\* not convert.
C9_CalendarBestEffort ==
    (/\ call.tool \in {"book_flight", "book_hotel"}
     /\ call.pc = "done"
     /\ call.result # <<>>)
    => /\ call.caught = ""
       /\ call.result.status = "confirmed"
       /\ call.resp.kind = IF call.tool = "book_flight"
                           THEN "Flight booked successfully!"
                           ELSE "Hotel booked successfully!"
       /\ call.resp.body = <<call.result>>

\* C9 witness: book_hotel has reported success after its calendar request
\* was answered non-OK.
C9_Witness ==
    /\ call.tool = "book_hotel"
    /\ call.pc = "done"
    /\ Len(net) = 1
    /\ net[1].outcome = "not_ok"
    /\ call.resp.kind = "Hotel booked successfully!"

\* C10: get_travel_plan is independent of history: for every plan id,
\* created, booked or never seen, it returns the fixed plan with the
\* requested id, status 'planning' and no flights or hotels, and never the
\* not-found text.
C10_MockPlanAlways ==
    (call.tool = "get_travel_plan" /\ call.pc = "done")
    => /\ call.caught = ""
       /\ call.resp.kind = "Travel Plan Details"
       /\ call.resp.body = <<[id |-> call.args.planId, title |-> "European Adventure",
                              status |-> "planning", flights |-> <<>>, hotels |-> <<>>]>>

\* C10 witness: get_travel_plan has answered for a plan id that book_trip
\* booked earlier, while another id was created and this one never was.
C10_Witness ==
    /\ call.tool = "get_travel_plan"
    /\ call.pc = "done"
    /\ [id |-> call.args.planId, event |-> "booked"] \in planLog
    /\ [id |-> call.args.planId, event |-> "created"] \notin planLog
    /\ \E entry \in planLog : entry.event = "created"
    /\ call.resp.body[1].status = "planning"


\* C11: every confirmation that bookFlight or bookHotel has produced, for
\* book_flight, book_hotel or inside book_trip, has totalPrice 0, and the
\* totalCost in a successful answer of book_trip is 0 whatever the numbers of
\* flight and hotel requests.
C11_TotalCostZero ==
    /\ call.tool \in {"book_flight", "book_hotel"} /\ call.pc # "idle" /\ call.result # <<>>
          => call.result.totalPrice = 0
    /\ call.tool = "book_trip" /\ call.pc # "idle"
          => /\ \A i \in 1..Len(call.result) : call.result[i].totalPrice = 0
             /\ call.pc = "done" /\ call.caught = ""
                   => /\ call.resp.body[2] = 0
                      /\ \A i \in 1..Len(call.resp.body[1].flights) :
                            call.resp.body[1].flights[i].totalPrice = 0
                      /\ \A i \in 1..Len(call.resp.body[1].hotels) :
                            call.resp.body[1].hotels[i].totalPrice = 0

\* C11 witness: book_trip has answered with the confirmations of MaxItems
\* flights and MaxItems hotels.
C11_Witness ==
    /\ call.tool = "book_trip" /\ call.pc = "done" /\ call.caught = ""
    /\ Len(call.resp.body[1].flights) = MaxItems
    /\ Len(call.resp.body[1].hotels) = MaxItems
    /\ call.resp.body[2] = 0


\* C12: when a flight or hotel booking fails inside bookTrip, book_trip
\* answers with the one aggregate error, the same text whichever booking
\* failed and however many succeeded before it; the confirmations obtained
\* before the failure are not in the answer, and nothing is done to them:
\* they stay confirmed and no request goes out.
C12_AggregateTripError ==
    call.tool = "book_trip" /\ call.pc = "done" /\ call.caught # ""
        => /\ call.caught = "Trip booking failed. Please try again."
           /\ call.resp = Response(CrossMark, "Trip booking failed",
                                   <<"Trip booking failed. Please try again.">>)
           /\ Len(call.result) < call.args.flights + call.args.hotels
           /\ \A i \in 1..Len(call.result) : call.result[i].status = "confirmed"
           /\ net = <<>>

\* C12 witness: book_trip has failed on a hotel after every flight of the
\* trip was confirmed.
C12_Witness ==
    /\ call.tool = "book_trip" /\ call.pc = "done" /\ call.caught # ""
    /\ call.args.flights = MaxItems
    /\ Len(call.result) = MaxItems
    /\ call.result[MaxItems].type = "flight"
    /\ call.result[MaxItems].status = "confirmed"


\* The entries of the list before a step are all there after it, in the same
\* places, with the id and the booking they were made with.
ReservationsKept ==
    /\ Len(mockReservations') >= Len(mockReservations)
    /\ \A i \in 1..Len(mockReservations) :
          /\ mockReservations'[i].id = mockReservations[i].id
          /\ mockReservations'[i].customerEmail = mockReservations[i].customerEmail
          /\ mockReservations'[i].restaurantId = mockReservations[i].restaurantId
          /\ mockReservations'[i].date = mockReservations[i].date
          /\ mockReservations'[i].time = mockReservations[i].time
          /\ mockReservations'[i].partySize = mockReservations[i].partySize

\* A view_reservations call that starts takes every stored reservation of its
\* email, keeps them while it runs, and answers with exactly those.
ViewReturnsStored(h) ==
    /\ handlers[h].tool = "idle" /\ handlers'[h].tool = "view_reservations"
          => \A i \in 1..Len(mockReservations) :
                ToLowerCase(mockReservations[i].customerEmail)
                    = ToLowerCase(handlers'[h].request.customerEmail)
                => \E n \in 1..Len(handlers'[h].refs) : handlers'[h].refs[n] = i
    /\ handlers[h].tool = "view_reservations" /\ handlers'[h].tool = "view_reservations"
          => handlers'[h].refs = handlers[h].refs
    /\ handlers[h].tool = "view_reservations" /\ handlers[h].pc # "done"
       /\ handlers'[h].pc = "done"
          => IF handlers[h].refs = <<>>
             THEN handlers'[h].resp.kind = "no_reservations"
             ELSE /\ handlers'[h].resp.kind = "your_reservations"
                  /\ Len(handlers'[h].resp.body) = Len(handlers[h].refs)
                  /\ \A n \in 1..Len(handlers[h].refs) :
                        handlers'[h].resp.body[n]
                            = formatReservation(mockReservations'[handlers[h].refs[n]])

\* A cancel_reservation call that starts with the id and the email of a
\* stored reservation finds it, and ends with the cancellation confirmation.
CancelFindsStored(h) ==
    /\ handlers[h].tool = "idle" /\ handlers'[h].tool = "cancel_reservation"
       /\ (\E i \in 1..Len(mockReservations) :
               Matches(mockReservations[i], handlers'[h].reservationId,
                       handlers'[h].request.customerEmail))
          => /\ handlers'[h].ref \in 1..Len(mockReservations)
             /\ Matches(mockReservations[handlers'[h].ref], handlers'[h].reservationId,
                        handlers'[h].request.customerEmail)
    /\ handlers[h].tool = "cancel_reservation" /\ handlers[h].pc # "done"
       /\ handlers'[h].pc = "done" /\ handlers[h].ref # 0
          => handlers'[h].resp.kind = "reservation_cancelled"

\* C13: the one list of the one ReservationService instance starts empty and
\* only grows: no step of any tool call removes or replaces a reservation, so
\* every view_reservations call that starts after a reservation was made
\* returns it for its customer email (in any letter case), and every
\* cancel_reservation call that starts after it finds it, whichever handler
\* made it and whatever calls ran in between.
C13_ReservationsPersist ==
    [][/\ ReservationsKept
       /\ \A h \in Slots : ViewReturnsStored(h) /\ CancelFindsStored(h)]_vars

\* C13 witness: a view_reservations call has answered with a reservation
\* that an earlier call made and another earlier call cancelled.
C13_Witness ==
    \E h \in Slots :
        /\ handlers[h].tool = "view_reservations"
        /\ handlers[h].pc = "done"
        /\ handlers[h].resp.kind = "your_reservations"
        /\ handlers[h].resp.body[1].status = "cancelled"
        /\ \A j \in Slots \ {h} : Idle(j)


\* No stored reservation has both the id and, letter case aside, the email
\* that a call was made with.
NothingToCancel(reservationId, customerEmail) ==
    \A i \in 1..Len(mockReservations) :
        \/ mockReservations[i].id # reservationId
        \/ ToLowerCase(mockReservations[i].customerEmail) # ToLowerCase(customerEmail)

C15_ValidateContent ==
    call.tool \in {"validate_document_content", "summarize_document",
                   "create_jira_task_from_doc"}
        => LET content == call.input
               blank == content.sentences = <<>>
               characters == contentLength(content)
               words == Len(Flatten(content.sentences))
               verdict == validateContent(content)
           IN  /\ verdict.isValid = (~blank /\ characters <= 1000000 /\ words >= 10)
               /\ blank => verdict.error = "Content cannot be empty"
               /\ ~blank /\ characters > 1000000
                     => verdict.error = "Content is too large (max 1MB)"
               /\ ~blank /\ characters <= 1000000 /\ words < 10
                     => verdict.error =
                          "Content must contain at least 10 words for meaningful summarization"
               /\ call.tool = "validate_document_content" /\ call.pc = "done"
                     => IF verdict.isValid
                        THEN call.resp.kind = "Document Validation Results"
                        ELSE call.resp = Response("Validation failed", "Validation failed",
                                                  <<verdict.error>>)

\* C15 witness: validate_document_content has accepted a content of exactly
\* 1,000,000 characters and exactly 10 words.
C15_Witness ==
    /\ call.tool = "validate_document_content"
    /\ call.pc = "done"
    /\ contentLength(call.input) = 1000000
    /\ Len(Flatten(call.input.sentences)) = 10
    /\ call.resp.kind = "Document Validation Results"


\* C16: when search_restaurants is called with minRating, every restaurant
\* in its answer has a rating of at least minRating, whatever businesses the
\* provider listed; the request to the provider carries no rating parameter.
C16_MinRatingFilter ==
    call.tool = "search_restaurants" /\ call.filters.minRating # 0
        => /\ "minRating" \notin DOMAIN net[1].request[2]
           /\ "rating" \notin DOMAIN net[1].request[2]
           /\ call.pc = "done" /\ call.resp.kind = "restaurants"
                 => \A i \in 1..Len(call.resp.body) :
                       call.resp.body[i].rating >= call.filters.minRating

\* C16 witness: the provider listed a restaurant rated 4 and one rated 3,
\* minRating was 4, and the answer holds the first alone.
C16_Witness ==
    /\ call.tool = "search_restaurants"
    /\ call.pc = "done"
    /\ call.filters.minRating = 4
    /\ net[1].outcome.businesses = <<"r1", "r2">>
    /\ YelpBusinessDetails("r2").rating < 4
    /\ Len(call.resp.body) = 1
    /\ call.resp.body[1].id = "r1"


\* C17: every hotel in an answer of search_hotels is rated at least
\* minRating when minRating is given (0 stands for an absent filter, ratings
\* are in tenths) and costs at most maxPrice a night when maxPrice is given,
\* for the provider's hotels and for the mock hotels.
C17_HotelFilters ==
    call.tool = "search_hotels" /\ call.pc = "done"
        => \A i \in 1..Len(call.resp.body) :
              /\ call.args.minRating # 0 => call.resp.body[i].rating >= call.args.minRating
              /\ call.args.maxPrice # 0
                    => call.resp.body[i].pricePerNight <= call.args.maxPrice


\* In this state each formatter, given a stored reservation (with either
\* phone) or a restaurant of the provider, returns the values of its argument
\* and nothing else.
FormattersReadArgumentOnly ==
    /\ \A i \in 1..Len(mockReservations) :
          LET r == mockReservations[i]
          IN  /\ formatReservation(r) =
                    [restaurantName |-> r.restaurantName, id |-> r.id, date |-> r.date,
                     time |-> r.time, partySize |-> r.partySize, status |-> r.status,
                     specialRequests |-> r.specialRequests]
              /\ \A restaurantPhone \in {"", "555-0101"} :
                    formatReservationConfirmation(r, restaurantPhone) =
                        [id |-> r.id, restaurantName |-> r.restaurantName, date |-> r.date,
                         time |-> r.time, partySize |-> r.partySize,
                         customerName |-> r.customerName,
                         customerEmail |-> r.customerEmail,
                         customerPhone |-> r.customerPhone,
                         specialRequests |-> r.specialRequests, status |-> r.status,
                         restaurantPhone |-> restaurantPhone]
              /\ formatCancellationConfirmation(r) =
                    [id |-> r.id, restaurantName |-> r.restaurantName, date |-> r.date,
                     time |-> r.time]
    /\ \A restaurantId \in {"r1", "r2"} :
          LET x == convertYelpToRestaurant(restaurantId, YelpBusinessDetails(restaurantId))
          IN  formatRestaurant(x) = [id |-> x.id, name |-> x.name, rating |-> x.rating]

\* A step in which handler h answers with a formatted reservation leaves the
\* list as it was, but for the restaurant name that the handler itself writes
\* before it formats, and the answer is the formatter's value for the
\* reservation as it is stored after the step.
FormattingKeepsReservations(h) ==
    handlers[h].pc # "done" /\ handlers'[h].pc = "done"
       /\ handlers'[h].resp.kind \in {"your_reservations", "reservation_cancelled",
                                      "reservation_confirmed"}
        => /\ Len(mockReservations') = Len(mockReservations)
           /\ \A i \in 1..Len(mockReservations) :
                 mockReservations'[i] =
                    [mockReservations[i] EXCEPT
                        !.restaurantName = mockReservations'[i].restaurantName]
           /\ handlers'[h].resp.kind = "reservation_cancelled"
                 => /\ mockReservations' = mockReservations
                    /\ handlers'[h].resp.body =
                          <<formatCancellationConfirmation(mockReservations'[handlers'[h].ref])>>
           /\ handlers'[h].resp.kind = "reservation_confirmed"
                 => handlers'[h].resp.body =
                       <<formatReservationConfirmation(mockReservations'[handlers'[h].ref],
                                                       handlers'[h].restaurant.phone)>>
           /\ handlers'[h].resp.kind = "your_reservations"
                 => /\ Len(handlers'[h].resp.body) = Len(handlers'[h].refs)
                    /\ \A n \in 1..Len(handlers'[h].refs) :
                          handlers'[h].resp.body[n] =
                             formatReservation(mockReservations'[handlers'[h].refs[n]])

\* The step in which search_restaurants answers leaves the reservations as
\* they were, and each entry of the answer is formatRestaurant of a
\* restaurant the provider listed.
FormattingKeepsRestaurants ==
    call.tool = "search_restaurants" /\ call.pc # "done" /\ call'.pc = "done"
        => /\ mockReservations' = mockReservations
           /\ call'.resp.kind = "restaurants"
                 => \A i \in 1..Len(call'.resp.body) :
                       \E k \in 1..Len(net'[1].outcome.businesses) :
                          call'.resp.body[i] =
                             formatRestaurant(convertYelpToRestaurant(
                                net'[1].outcome.businesses[k],
                                YelpBusinessDetails(net'[1].outcome.businesses[k])))

JiraRequests == {i \in 1..Len(net) : net[i].api = "jira"}

\* C19: create_jira_task_from_doc checks the Jira configuration first (an
\* unconfigured server answers with the initialization error whatever the
\* content), then validates the content (a refused content is answered with
\* its validation error and nothing is sent), then summarizes, then sends at
\* most one create-issue request: the request is the last one of the
\* invocation, it goes out only once summarizeDocument has returned its
\* summary, every Workers AI request comes before it, and it carries the description generated from that summary. The tool answers
\* only after the request has settled.
C19_JiraTaskOrder ==
    call.tool = "create_jira_task_from_doc"
        => /\ ~call.configured
                 => /\ call.pc = "done"
                    /\ net = <<>>
                    /\ call.resp = Response("Error", "Error",
                          <<"Failed to initialize Jira service: Jira configuration is incomplete">>)
           /\ call.configured /\ ~validateContent(call.input).isValid
                 => /\ call.pc = "done"
                    /\ net = <<>>
                    /\ call.resp = Response("Error", "Error",
                                            <<validateContent(call.input).error>>)
           /\ Cardinality(JiraRequests) <= 1
           /\ call.pc \in {"summary", "keyTopics", "actionItems"} => JiraRequests = {}
           /\ \A i \in JiraRequests :
                 /\ i = Len(net)
                 /\ call.pc \in {"jira", "done"}
                 /\ call.summary # EmptyText
                 /\ call.wordCount = splitLength(call.summary)
                 /\ net[i].request = <<"POST /rest/api/3/issue",
                                       generateJiraTaskDescription(call, call.title)>>
                 /\ \A k \in 1..(i - 1) : net[k].api = "workers_ai"
                 /\ (call.pc = "jira") = (net[i].outcome = "pending")
           /\ call.pc = "jira" => JiraRequests # {}
           /\ call.pc = "done" /\ call.configured /\ validateContent(call.input).isValid
                 => JiraRequests # {}

\* C19 witness: the task was created after three Workers AI requests, the
\* create-issue request being the fourth and last of the invocation.
C19_Witness ==
    /\ call.tool = "create_jira_task_from_doc"
    /\ call.pc = "done"
    /\ call.resp.kind = "Jira Task Created Successfully"
    /\ Len(net) = 4
    /\ JiraRequests = {4}
    /\ net[4].outcome = "ok"


\* The words taken after each of the first k sentences of `sorted` when a
\* sentence is taken exactly if its words still fit under maxLength.
GreedyTotal(sorted, maxLength) ==
    LET total[k \in 0..Len(sorted)] ==
            IF k = 0 THEN 0
            ELSE IF total[k - 1] + Len(sorted[k].item) <= maxLength
                 THEN total[k - 1] + Len(sorted[k].item)
                 ELSE total[k - 1]
    IN  total

\* The places in `sorted` of the sentences so taken.
GreedyIncluded(sorted, maxLength) ==
    {k \in 1..Len(sorted) :
        GreedyTotal(sorted, maxLength)[k - 1] + Len(sorted[k].item) <= maxLength}

\* C20: the sentences are considered in non-increasing order of score (a
\* reordering of the scored sentences); a sentence is selected exactly when
\* its words added to the words selected before it stay at most maxLength;
\* a sentence that does not fit is passed over and the sentences after it
\* are still considered, so the selection is, in order, every sentence that
\* fits when its turn comes, and the summary is those sentences joined.
C20_GreedySelection ==
    call.tool = "extractiveSummary" /\ call.pc = "done"
        => LET scored == scoredSentences(call.content)
               sorted == sortByScore(scored)
               selected == selectedSentences(call.content, call.maxLength)
               included == GreedyIncluded(sorted, call.maxLength)
               \* the place in `sorted` of the j-th included sentence
               place(j) == CHOOSE k \in included :
                              Cardinality({m \in included : m <= k}) = j
           IN  /\ Len(sorted) = Len(scored)
               /\ \A a \in 1..Len(scored) :
                     Cardinality({b \in 1..Len(sorted) : sorted[b] = scored[a]})
                        = Cardinality({b \in 1..Len(scored) : scored[b] = scored[a]})
               /\ \A k \in 1..(Len(sorted) - 1) : sorted[k].score >= sorted[k + 1].score
               /\ Len(selected) = Cardinality(included)
               /\ \A j \in 1..Len(selected) : selected[j] = sorted[place(j)].item
               /\ call.result = Text(IF selected = <<>> THEN <<".">>
                                     ELSE joinSentences(selected), " ", 0)

\* C20 witness: a sentence did not fit and was passed over, and a sentence
\* that came after it, with a strictly lower score, was selected.
C20_Witness ==
    /\ call.tool = "extractiveSummary"
    /\ call.pc = "done"
    /\ LET sorted == sortByScore(scoredSentences(call.content))
           included == GreedyIncluded(sorted, call.maxLength)
       IN  \E k \in 1..Len(sorted), later \in 1..Len(sorted) :
              /\ k < later
              /\ k \notin included
              /\ later \in included
              /\ sorted[later].score < sorted[k].score
              /\ Len(selectedSentences(call.content, call.maxLength))
                    = Cardinality(included)


\* C21: the step in which make_reservation learns the outcome of its
\* restaurant lookup either gets no restaurant (the Yelp request failed, for
\* an unknown id or anything else), answers "Restaurant not found" and leaves
\* the reservation list as it was, or gets a restaurant and appends; the
\* step in which the call starts changes nothing in the list.
C21_NoReservationWithoutRestaurant ==
    [][\A h \in Slots :
          /\ handlers[h].tool = "idle" /\ handlers'[h].tool = "make_reservation"
                => mockReservations' = mockReservations
          /\ handlers[h].tool = "make_reservation" /\ handlers[h].pc = "lookup"
             /\ handlers'[h] # handlers[h]
                => IF handlers'[h].restaurant.isNull
                   THEN /\ handlers'[h].pc = "done"
                        /\ handlers'[h].resp =
                              Response(CrossMark, "restaurant_not_found", <<>>)
                        /\ handlers'[h].ref = 0
                        /\ mockReservations' = mockReservations
                   ELSE /\ handlers'[h].pc = "made"
                        /\ Len(mockReservations') = Len(mockReservations) + 1]_vars

\* C21 witness: make_reservation has answered "Restaurant not found" on a
\* server that stores a reservation from an earlier call.
C21_Witness ==
    \E h \in Slots :
        /\ handlers[h].tool = "make_reservation"
        /\ handlers[h].pc = "done"
        /\ handlers[h].resp = Response(CrossMark, "restaurant_not_found", <<>>)
        /\ Len(mockReservations) = 1
        /\ \A j \in Slots \ {h} : Idle(j)


\* Handler h, having got a restaurant, makes its reservation in this step:
\* one entry is appended, the others stay, and the new entry is confirmed
\* and holds the request.
MakesOneReservation(h) ==
    LET request == handlers[h].request
        n == Len(mockReservations)
    IN  /\ handlers'[h].pc = "made"
        /\ handlers'[h].ref = n + 1
        /\ Len(mockReservations') = n + 1
        /\ SubSeq(mockReservations', 1, n) = mockReservations
        /\ mockReservations'[n + 1].status = "confirmed"
        /\ mockReservations'[n + 1].restaurantId = request.restaurantId
        /\ mockReservations'[n + 1].date = request.date
        /\ mockReservations'[n + 1].time = request.time
        /\ mockReservations'[n + 1].partySize = request.partySize
        /\ mockReservations'[n + 1].customerName = request.customerName
        /\ mockReservations'[n + 1].customerEmail = request.customerEmail
        /\ mockReservations'[n + 1].customerPhone = request.customerPhone
        /\ mockReservations'[n + 1].specialRequests = request.specialRequests

\* Handler h returns in this step: its reservation carries the name of the
\* restaurant it looked up, nothing else in the list has changed, and the
\* answer is the confirmation of the reservation as stored.
ReturnsNamedReservation(h) ==
    LET i == handlers[h].ref
    IN  /\ handlers'[h].pc = "done"
        /\ handlers'[h].resp.kind = "reservation_confirmed"
        /\ mockReservations'[i].restaurantName = handlers[h].restaurant.name
        /\ mockReservations' =
              [mockReservations EXCEPT ![i].restaurantName = handlers[h].restaurant.name]
        /\ handlers'[h].resp.body[1].restaurantName = handlers[h].restaurant.name
        /\ handlers'[h].resp.body[1].id = mockReservations'[i].id

C23_TravelBuffer ==
    call.tool = "check_calendar_conflicts" /\ call.pc = "done" /\ call.caught = ""
        => LET travelStart == 24 * call.args.startDate.day
               travelEnd == 24 * call.args.endDate.day
           IN  \A i \in 1..Len(call.result) :
                  LET event == call.result[i]
                  IN  (\/ travelStart - 4 <= event.end /\ event.end <= travelStart
                       \/ travelEnd <= event.start /\ event.start <= travelEnd + 2)
                      => \E k \in 1..Len(call.resp.body) :
                            /\ call.resp.body[k].eventId = event.id
                            /\ call.resp.body[k].type = "tight_schedule"
                            /\ call.resp.body[k].severity = "medium"


\* The Workers AI request for `prompt` gave no text: it was not sent (no
\* binding), it threw, its reply had no response string, or the response
\* was empty or blank.
NoAIText(prompt) ==
    \A i \in 1..Len(net) :
        net[i].request = prompt
            => \/ net[i].outcome.kind \in {"threw", "malformed"}
               \/ net[i].outcome.response.parts = <<>>

\* C24: what summarizeDocument returns has at most 8 key topics and at most
\* 5 action items, none of them empty; the key topics are empty when
\* includeKeyTopics is false (no request is then made for them) or when
\* their AI call gave no text, and likewise the action items.
C24_TopicsAndActionItems ==
    call.tool = "summarizeDocument" /\ call.pc = "summarized"
        => /\ Len(call.keyTopics) <= 8
           /\ Len(call.actionItems) <= 5
           /\ \A i \in 1..Len(call.keyTopics) : call.keyTopics[i] # ""
           /\ \A i \in 1..Len(call.actionItems) : call.actionItems[i] # ""
           /\ ~call.includeKeyTopics
                 => /\ call.keyTopics = <<>>
                    /\ \A i \in 1..Len(net) : net[i].request # "key_topics"
           /\ ~call.includeActionItems
                 => /\ call.actionItems = <<>>
                    /\ \A i \in 1..Len(net) : net[i].request # "action_items"
           /\ ~call.binding => net = <<>>
           /\ NoAIText("key_topics") => call.keyTopics = <<>>
           /\ NoAIText("action_items") => call.actionItems = <<>>

\* C24 witness: the reply listed nine topics and six numbered items; eight
\* topics and five items are returned.
C24_Witness ==
    /\ call.tool = "summarizeDocument"
    /\ call.pc = "summarized"
    /\ Len(call.keyTopics) = 8
    /\ Len(call.actionItems) = 5
    /\ \E i \in 1..Len(net) :
          net[i].request = "key_topics" /\ Len(net[i].outcome.response.parts) = 9
    /\ \E i \in 1..Len(net) :
          net[i].request = "action_items" /\ Len(net[i].outcome.response.parts) = 6


\* C25: every stored reservation is 'confirmed' or 'cancelled', never
\* 'pending', and no step of any handler takes a 'cancelled' reservation
\* back to another status or out of the list.
C25_StatusMonotonic ==
    /\ [](\A i \in 1..Len(mockReservations) :
             mockReservations[i].status \in {"confirmed", "cancelled"})
    /\ [][\A i \in 1..Len(mockReservations) :
             mockReservations[i].status = "cancelled"
                 => /\ i <= Len(mockReservations')
                    /\ mockReservations'[i].status = "cancelled"]_vars

\* C25 witness: a reservation was cancelled and a second cancel_reservation
\* for it has answered; it is still cancelled.
C25_Witness ==
    /\ Len(mockReservations) = 1
    /\ mockReservations[1].status = "cancelled"
    /\ cancelConf[1] # NoResponse
    /\ \E h \in Slots :
          /\ handlers[h].tool = "cancel_reservation"
          /\ handlers[h].pc = "done"
          /\ handlers[h].second
          /\ handlers[h].resp.kind = "reservation_cancelled"


\* The fields of a reservation that are fixed when it is created.
Created(r) ==
    <<r.id, r.restaurantId, r.date, r.time, r.partySize,
      r.customerName, r.customerEmail, r.customerPhone, r.specialRequests>>

\* Every reservation keeps its position and its creation fields.
AppendOnly ==
    /\ Len(mockReservations') >= Len(mockReservations)
    /\ \A i \in 1..Len(mockReservations) :
          Created(mockReservations'[i]) = Created(mockReservations[i])

\* What a step of handler h running `tool` may change in the list.
NarrowEffect(h) ==
    LET tool == handlers'[h].tool
        first == FindIndex(mockReservations, handlers[h].reservationId,
                           handlers[h].request.customerEmail)
    IN  /\ tool = "check_availability" => mockReservations' = mockReservations
        /\ tool \in {"view_reservations", "cancel_reservation"}
              => /\ Len(mockReservations') = Len(mockReservations)
                 /\ \A i \in 1..Len(mockReservations) :
                       /\ mockReservations'[i].restaurantName # mockReservations[i].restaurantName
                             => mockReservations[i].restaurantName = ""
                       /\ mockReservations'[i].status # mockReservations[i].status
                             => /\ tool = "cancel_reservation"
                                /\ i = first
                                /\ mockReservations'[i].status = "cancelled"

C27_CancelNeverNull ==
    \A h \in Slots :
        /\ handlers[h].tool = "cancel_reservation" /\ handlers[h].pc \in {"lookup", "cancelled"}
              => /\ handlers[h].ref # 0
                 /\ Matches(mockReservations[handlers[h].ref], handlers[h].reservationId,
                            handlers[h].request.customerEmail)
        /\ handlers[h].resp.kind # "error_cancelling"

\* C27 witness: two cancel_reservation handlers for the same reservation ran
\* interleaved, each found it before the other had cancelled it, and both
\* answered with the cancellation confirmation.
C27_Witness ==
    /\ \A h \in Slots :
          /\ handlers[h].tool = "cancel_reservation"
          /\ handlers[h].pc = "done"
          /\ handlers[h].resp.kind = "reservation_cancelled"
          /\ ~handlers[h].second
    /\ handlers[1].reservationId = handlers[2].reservationId
    /\ handlers[1].ref = handlers[2].ref


\* The entry a makeReservation call pushed is still the one its handler
\* holds, and no other handler in flight holds the same entry.
OwnEntry(h) ==
    handlers[h].tool = "make_reservation" /\ handlers[h].pc = "made"
        => /\ handlers[h].ref \in 1..Len(mockReservations)
           /\ Created(mockReservations[handlers[h].ref])
                 = Created(makeReservation(<<>>, mockReservations[handlers[h].ref].id,
                                           handlers[h].request)[1])
           /\ \A j \in Slots \ {h} :
                 handlers[j].tool = "make_reservation" /\ handlers[j].pc = "made"
                     => handlers[j].ref # handlers[h].ref

\* A reservation whose cancel_reservation has answered is cancelled.
CancelStands ==
    /\ \A i \in 1..Len(mockReservations) :
          cancelConf[i] # NoResponse => mockReservations[i].status = "cancelled"
    /\ \A h \in Slots :
          handlers[h].resp.kind = "reservation_cancelled"
              => mockReservations[handlers[h].ref].status = "cancelled"

\* The list grows by one exactly when a makeReservation call completes.
OneEntryPerCall ==
    LET completed == {h \in Slots : /\ handlers[h].tool = "make_reservation"
                                    /\ handlers[h].pc = "lookup"
                                    /\ handlers'[h].pc = "made"}
    IN  /\ Len(mockReservations') = Len(mockReservations) + Cardinality(completed)
        /\ \A i \in 1..Len(mockReservations) :
              Created(mockReservations'[i]) = Created(mockReservations[i])

\* C28: with make_reservation and cancel_reservation handlers interleaving
\* at their awaits, every completed makeReservation call adds exactly one
\* entry, which no other call loses or overwrites, and a reservation whose
\* cancel has completed stays cancelled.
C28_ConsistentUnderInterleaving ==
    /\ [](CancelStands /\ \A h \in Slots : OwnEntry(h))
    /\ [][OneEntryPerCall]_vars

\* C28 witness: a make_reservation and a cancel_reservation were in flight
\* together; the cancel of the first reservation and the creation of the
\* second have both completed.
C28_Witness ==
    /\ Len(mockReservations) = 2
    /\ mockReservations[1].status = "cancelled"
    /\ mockReservations[2].status = "confirmed"
    /\ cancelConf[1] # NoResponse
    /\ \E h, j \in Slots :
          /\ handlers[h].tool = "make_reservation"
          /\ handlers[h].resp.kind = "reservation_confirmed"
          /\ handlers[h].ref = 2
          /\ handlers[j].tool = "cancel_reservation"
          /\ handlers[j].resp.kind = "reservation_cancelled"
          /\ handlers[j].ref = 1


\* C29: book_flight sends no calendar-event request at any point of its
\* run: the confirmation of bookFlight has no flight times, so
\* createCalendarEvent throws while it builds the event, before its request,
\* and addToCalendar swallows that; the tool still returns the success text,
\* which says the flight details have been added to the calendar.
C29_FlightNeverOnCalendar ==
    call.tool = "book_flight"
        => /\ net = <<>>
           /\ call.pc # "calendar"
           /\ call.pc = "done" /\ call.result # <<>>
                 => /\ ~call.result.start.valid
                    /\ ~call.result.end.valid
                    /\ createCalendarEvent(call.result, "ok") = Thrown("Invalid time value")
                    /\ addToCalendar(call.result, "ok") = Returned(<<>>)
                    /\ call.caught = ""
                    /\ call.resp = Response(CheckMark, "Flight booked successfully!",
                                            <<call.result>>)

\* C29 witness: book_flight has returned its success text for a confirmed
\* booking and no request was sent.
C29_Witness ==
    /\ call.tool = "book_flight"
    /\ call.pc = "done"
    /\ call.result # <<>>
    /\ call.result.status = "confirmed"
    /\ call.resp.kind = "Flight booked successfully!"
    /\ net = <<>>


\* C30: for every content validateContent accepts, validate_document_content
\* reports a paragraph count of 1, however many blank-line separated
\* paragraphs the content has: the statistics are taken of the cleaned
\* content, in which every white-space run is a single space.
C30_OneParagraph ==
    call.tool = "validate_document_content" /\ call.pc = "done"
        => IF validateContent(call.input).isValid
           THEN /\ call.resp.kind = "Document Validation Results"
                /\ call.resp.body[4].paragraphCount = 1
                /\ cleanTextContent(call.input).gap = " "
           ELSE call.resp.kind = "Validation failed"

\* C30 witness: a valid document of two paragraphs separated by a blank
\* line was reported as one paragraph.
C30_Witness ==
    /\ call.tool = "validate_document_content"
    /\ call.pc = "done"
    /\ validateContent(call.input).isValid
    /\ call.input.gap = "\n\n"
    /\ getDocumentStats(call.input).paragraphCount = 2
    /\ call.resp.body[4].paragraphCount = 1

=============================================================================
